---------------------------- MODULE CorpusGraph ----------------------------
(***************************************************************************)
(* The retrieval graph in Neo4j, the hydrator that is its only writer, and *)
(* the queries by which a runtime pod reads it.                            *)
(*                                                                         *)
(* A cycle of the hydrator fetches the catalog, the blueprints and the     *)
(* knowledge in three calls, compares the embedding model and dimension    *)
(* with what the graph holds, clears the partition if they changed, and    *)
(* loads.  Every action is one call or one transaction; a cycle that fails *)
(* or is killed between two of them is started over by run_forever.        *)
(*                                                                         *)
(* An export is known by its name, which stands for its sha.  A node is    *)
(* keyed by <<kind, id>>.                                                  *)
(***************************************************************************)
EXTENDS BlueprintCompile

CONSTANTS
    BlueprintExports,  \* what /blueprints/export may hold: name -> entries
    KnowledgeExports,  \* what /knowledge/export may hold: name -> chunk ids
    Catalogs,          \* what the catalog export may hold: name -> columns
    Deployments,       \* the embedding models and their dimensions
    Staged,            \* blueprint ids of the source='learning' staging tier
    Scopes,            \* the column scopes of the users
    MaxPublishes, MaxDeploys, MaxFailures   \* bounds

(* An export is a list, and the orders of a blueprint are numbers.         *)
ASSUME ExportsAreLists ==
    \A n \in DOMAIN BlueprintExports :
      /\ BlueprintExports[n] \in Seq(Range(BlueprintExports[n]))
      /\ \A e \in Range(BlueprintExports[n]) :
           e.wellFormed => IsFiniteSet(DOMAIN e.bp.nodes) /\ DOMAIN e.bp.nodes \subseteq Int

VARIABLES
    mcp,     \* what the MCP exports now
    env,     \* the deployed embedding model and its dimension
    graph,   \* the Neo4j database
    hyd,     \* the running cycle of the hydrator
    count    \* publishes, deployments and failures so far

corpusVars == <<mcp, env, graph, hyd, count>>

None == "none"
ModelKinds == {"blueprint", "knowledge"}

---------------------------------------------------------------------------
(* corpus_seeds_from_export: an entry that is no mapping, has no id or does *)
(* not fit the dataclass is dropped, a malformed source becomes "mcp".     *)
SeedOf(entry) ==
    [id |-> entry.id, status |-> entry.status, drift |-> entry.drift, bp |-> entry.bp,
     source |-> IF entry.source = "malformed" THEN "mcp" ELSE entry.source]

SeedsOf(entries) ==
    LET good == Pick(entries, {i \in DOMAIN entries : entries[i].wellFormed})
    IN  [i \in DOMAIN good |-> SeedOf(good[i])]

Compiled == [n \in DOMAIN BlueprintExports |-> Compile(SeedsOf(BlueprintExports[n]))]

(* The nodes that one load writes (_UPSERT_BLUEPRINT with dag_properties,  *)
(* _UPSERT_KNOWLEDGE), stamped with the corpus sha.                        *)
BlueprintNode(seed, model, dim, sha, columns) ==
    [source |-> seed.source, status |-> seed.status, drift |-> seed.drift, bp |-> seed.bp,
     model |-> model, dim |-> dim, sha |-> sha, edges |-> seed.bp.uses \cap columns]

Blank ==
    [nodes |-> <<>>, sql |-> NoSql, slots |-> <<>>, rules |-> <<>>,
     grain |-> [cols |-> {}, verifiable |-> TRUE], uses |-> {}]

KnowledgeNode(model, dim, sha) ==
    [source |-> "mcp", status |-> "validated", drift |-> None, bp |-> Blank,
     model |-> model, dim |-> dim, sha |-> sha, edges |-> {}]

Upserts(bps, kns, model, dim, columns) ==
    LET byId == Compiled[bps].byId
        sha == <<bps, kns>>
    IN  [k \in {<<"blueprint", x>> : x \in DOMAIN byId}
                \cup {<<"knowledge", x>> : x \in KnowledgeExports[kns]} |->
           IF k[1] = "blueprint" THEN BlueprintNode(byId[k[2]], model, dim, sha, columns)
           ELSE KnowledgeNode(model, dim, sha)]

(* MERGE: what is there under a key that is written is overwritten.        *)
Merged(new, old) ==
    [k \in DOMAIN new \cup DOMAIN old |-> IF k \in DOMAIN new THEN new[k] ELSE old[k]]

IsMcp(n) == n.source = "mcp"
McpKeys(nodes) == {k \in DOMAIN nodes : IsMcp(nodes[k])}

(* fetch_existing_models, fetch_existing_vector_dims.                      *)
ExistingModels(g) == {g.nodes[k].model : k \in McpKeys(g.nodes)}
ExistingDims(g) == {g.idx[c] : c \in ModelKinds} \ {0}

---------------------------------------------------------------------------
(* The start: an empty graph, or one that a human staged learning nodes    *)
(* in.                                                                     *)
IdleCycle == [pc |-> "idle", catalog |-> None, bps |-> None, kns |-> None, dim |-> 0,
         handled |-> FALSE, fresh |-> FALSE]

StagedNode ==
    [source |-> "learning", status |-> "validated", drift |-> None, bp |-> Blank,
     model |-> "other", dim |-> 0, sha |-> <<>>, edges |-> {}]

CorpusInit ==
    /\ mcp \in [catalog : DOMAIN Catalogs, bps : DOMAIN BlueprintExports,
                kns : DOMAIN KnowledgeExports]
    /\ env \in Deployments
    /\ graph = [nodes |-> [k \in {<<"blueprint", x>> : x \in Staged} |-> StagedNode],
                idx |-> [c \in ModelKinds |-> 0], columns |-> {},
                catalogSha |-> None, corpusSha |-> <<>>]
    /\ hyd = IdleCycle
    /\ count = [publishes |-> 0, deploys |-> 0, failures |-> 0]

(* Somebody publishes to the MCP, one export at a time.                    *)
Publish ==
    /\ count.publishes < MaxPublishes
    /\ mcp' \in {[mcp EXCEPT !.catalog = n] : n \in DOMAIN Catalogs}
                  \cup {[mcp EXCEPT !.bps = n] : n \in DOMAIN BlueprintExports}
                  \cup {[mcp EXCEPT !.kns = n] : n \in DOMAIN KnowledgeExports}
    /\ mcp' # mcp
    /\ count' = [count EXCEPT !.publishes = @ + 1]
    /\ UNCHANGED <<env, graph, hyd>>

(* A deployment with another embedding model, dimension or both restarts   *)
(* the hydrator.                                                           *)
Deploy ==
    /\ count.deploys < MaxDeploys
    /\ env' \in Deployments \ {env}
    /\ hyd' = IdleCycle
    /\ count' = [count EXCEPT !.deploys = @ + 1]
    /\ UNCHANGED <<mcp, graph>>

(* Any await of the cycle may raise, and the process may be killed: either *)
(* way run_forever starts over.                                            *)
CycleFails ==
    /\ hyd.pc # "idle"
    /\ count.failures < MaxFailures
    /\ hyd' = IdleCycle
    /\ count' = [count EXCEPT !.failures = @ + 1]
    /\ UNCHANGED <<mcp, env, graph>>

CycleAt(pc) == hyd.pc = pc
CycleTo(pc) == hyd' = [hyd EXCEPT !.pc = pc]
Abort == hyd' = IdleCycle

---------------------------------------------------------------------------
(* run_once: the exports first.                                            *)
FetchCatalog ==
    /\ CycleAt("idle")
    /\ hyd' = [IdleCycle EXCEPT !.pc = "fetchBlueprints", !.catalog = mcp.catalog]
    /\ UNCHANGED <<mcp, env, graph, count>>

FetchBlueprints ==
    /\ CycleAt("fetchBlueprints")
    /\ hyd' = [hyd EXCEPT !.pc = "fetchKnowledge", !.bps = mcp.bps]
    /\ UNCHANGED <<mcp, env, graph, count>>

FetchKnowledge ==
    /\ CycleAt("fetchKnowledge")
    /\ hyd' = [hyd EXCEPT !.pc = "probe", !.kns = mcp.kns]
    /\ UNCHANGED <<mcp, env, graph, count>>

(* resolve_embedding_dimension asks the embedder.                          *)
ProbeDimension ==
    /\ CycleAt("probe")
    /\ hyd' = [hyd EXCEPT !.pc = "read", !.dim = env.dim]
    /\ UNCHANGED <<mcp, env, graph, count>>

(* _read_mcp_state, and the choice between the three ways to seed.         *)
DimChanged(g, dim) == ExistingDims(g) # {} /\ dim \notin ExistingDims(g)
ModelChangedNever(g, model) == FALSE
ModelChanged(g, model) == \E m \in ExistingModels(g) : m # model

ReadState ==
    /\ CycleAt("read")
    /\ CycleTo(IF DimChanged(graph, hyd.dim) THEN "dropBlueprint"
          ELSE IF ModelChanged(graph, env.model) THEN "clear" ELSE "schema")
    /\ UNCHANGED <<mcp, env, graph, count>>

---------------------------------------------------------------------------
(* rebuild_mcp_corpus_partition.  The two DROP INDEX statements commit on  *)
(* their own, before the transaction that clears.                          *)
DropIndex(c, from, to) ==
    /\ CycleAt(from)
    /\ graph' = [graph EXCEPT !.idx[c] = 0]
    /\ CycleTo(to)
    /\ UNCHANGED <<mcp, env, count>>

DropBlueprintIndex == DropIndex("blueprint", "dropBlueprint", "dropKnowledge")
DropKnowledgeIndex ==
    /\ CycleAt("dropKnowledge")
    /\ graph' = [graph EXCEPT !.idx["knowledge"] = 0]
    /\ hyd' = [hyd EXCEPT !.pc = "clear", !.fresh = TRUE]
    /\ UNCHANGED <<mcp, env, count>>

WithoutMcp(nodes) == [k \in DOMAIN nodes \ McpKeys(nodes) |-> nodes[k]]
Cleared(g) ==
    [g EXCEPT !.nodes = WithoutMcp(@), !.corpusSha = <<>>, !.catalogSha = None]

Clear ==
    /\ CycleAt("clear")
    /\ graph' = Cleared(graph)
    /\ CycleTo(IF hyd.fresh THEN "recreate" ELSE "schema")
    /\ UNCHANGED <<mcp, env, count>>

CreateMissing(g, dim) ==
    [g EXCEPT !.idx = [c \in ModelKinds |-> IF @[c] = 0 THEN dim ELSE @[c]]]

Recreate ==
    /\ CycleAt("recreate")
    /\ graph' = CreateMissing(graph, hyd.dim)
    /\ CycleTo("schema")
    /\ UNCHANGED <<mcp, env, count>>

(* apply_schema: CREATE ... IF NOT EXISTS, after the dimension parity      *)
(* check.  A mismatch is handled once, by a rebuild.                       *)
DimensionParity(g, dim) == ExistingDims(g) \subseteq {dim}

ApplySchema ==
    /\ CycleAt("schema")
    /\ IF DimensionParity(graph, hyd.dim)
       THEN graph' = CreateMissing(graph, hyd.dim) /\ CycleTo("loadCatalog")
       ELSE /\ UNCHANGED graph
            /\ IF hyd.handled THEN Abort
               ELSE hyd' = [hyd EXCEPT !.pc = "dropBlueprint", !.handled = TRUE]
    /\ UNCHANGED <<mcp, env, count>>

---------------------------------------------------------------------------
(* load_catalog_graph: a no-op for the sha it holds; otherwise one         *)
(* transaction that upserts, deletes the columns no longer exported, with  *)
(* the USES edges that reach them, and stamps the sha.                     *)
EdgesWithin(nodes, cols) ==
    [k \in DOMAIN nodes |-> [nodes[k] EXCEPT !.edges = @ \cap cols]]

WithCatalog(g, name) ==
    [g EXCEPT !.columns = Catalogs[name], !.catalogSha = name,
              !.nodes = EdgesWithin(@, Catalogs[name])]

LoadCatalog ==
    /\ CycleAt("loadCatalog")
    /\ graph' = IF graph.catalogSha = hyd.catalog THEN graph ELSE WithCatalog(graph, hyd.catalog)
    /\ CycleTo("loadCorpus")
    /\ UNCHANGED <<mcp, env, count>>

(* load_corpus up to its embedding call: the sha no-op, then validation,   *)
(* which aborts the load before anything is written.                       *)
LoadCorpus ==
    /\ CycleAt("loadCorpus")
    /\ IF graph.corpusSha = <<hyd.bps, hyd.kns>> \/ ~Compiled[hyd.bps].ok THEN Abort ELSE CycleTo("write")
    /\ UNCHANGED <<mcp, env, graph, count>>

(* The write transaction: model parity, upserts with their USES edges, the *)
(* collection of mcp nodes that carry another sha, CorpusMeta.             *)
KeepGarbage(nodes, sha) == nodes
CollectGarbage(nodes, sha) ==
    [k \in {q \in DOMAIN nodes : IsMcp(nodes[q]) => nodes[q].sha = sha} |-> nodes[k]]

Written(g, h, e) ==
    LET sha == <<h.bps, h.kns>>
        merged == Merged(Upserts(h.bps, h.kns, e.model, h.dim, g.columns), g.nodes)
    IN  [g EXCEPT !.nodes = CollectGarbage(merged, sha), !.corpusSha = sha]

WriteCorpus ==
    /\ CycleAt("write")
    /\ graph' = IF ModelChanged(graph, env.model) THEN graph ELSE Written(graph, hyd, env)
    /\ Abort
    /\ UNCHANGED <<mcp, env, count>>

CycleStep ==
    \/ FetchCatalog
    \/ FetchBlueprints
    \/ FetchKnowledge
    \/ ProbeDimension
    \/ ReadState
    \/ DropBlueprintIndex
    \/ DropKnowledgeIndex
    \/ Clear
    \/ Recreate
    \/ ApplySchema
    \/ LoadCatalog
    \/ LoadCorpus
    \/ WriteCorpus

CorpusNext == Publish \/ Deploy \/ CycleFails \/ CycleStep

(* run_forever never stops, and each of its calls returns or raises.       *)
CorpusSpec == CorpusInit /\ [][CorpusNext]_corpusVars /\ WF_corpusVars(CycleStep)

---------------------------------------------------------------------------
(* The readers.  graph_ready; recall for a query vector of the deployed    *)
(* model, through the index of that kind; _coerce_uses: a blueprint that   *)
(* declares nothing is in nobody's scope; get_blueprint by id.             *)
GraphReady(g) == g.corpusSha # <<>>

RecallEligible(g, e, k) ==
    LET n == g.nodes[k]
    IN  /\ g.idx[k[1]] = e.dim /\ n.dim = e.dim
        /\ n.model = e.model
        /\ n.status \in {None, "validated"}
        /\ k[1] = "blueprint" => n.drift # "suspect"
        /\ IsMcp(n)

InScope(uses, scope) == uses # {} /\ (scope = {} \/ uses \subseteq scope)

Recalled(g, e, scope) ==
    {k \in DOMAIN g.nodes :
       RecallEligible(g, e, k) /\ (k[1] = "blueprint" => InScope(g.nodes[k].bp.uses, scope))}

GetBlueprint(g, x, scope) ==
    {k \in DOMAIN g.nodes :
       k = <<"blueprint", x>> /\ IsMcp(g.nodes[k]) /\ InScope(g.nodes[k].bp.uses, scope)}

Served(g, e, scope) ==
    Recalled(g, e, scope)
      \cup UNION {GetBlueprint(g, k[2], scope) : k \in DOMAIN g.nodes}

---------------------------------------------------------------------------
(* /ready reads one sha, and stands for the whole partition: the mcp nodes *)
(* are those of the stamped export, references inlined, and there is none  *)
(* while there is no stamp.  Nothing a cycle leaves half done shows.       *)
ReadyMeansComplete ==
    LET want == Upserts(graph.corpusSha[1], graph.corpusSha[2], env.model, env.dim, {})
        content(n) == <<n.bp, n.source, n.status, n.drift>>
    IN  IF GraphReady(graph)
        THEN /\ McpKeys(graph.nodes) = McpKeys(want)
             /\ \A k \in McpKeys(want) : content(graph.nodes[k]) = content(want[k])
        ELSE McpKeys(graph.nodes) = {}

(* The hydrator never destroys the staging tier: a learning node stays     *)
(* until the MCP export itself brings its id.                              *)
LearningTierKept ==
    [][\A k \in DOMAIN graph.nodes :
         ~IsMcp(graph.nodes[k]) /\ graph.nodes[k].sha = <<>> =>
           \/ k \in DOMAIN graph'.nodes /\ graph'.nodes[k] = graph.nodes[k]
           \/ k[2] \in DOMAIN Compiled[hyd.bps].byId]_corpusVars

(* The scope check compares declared columns only.  It is worth something  *)
(* because no stored query, its inlined references and the column behind a *)
(* rule or a slot included, reads a column that is not declared.           *)
Reads(b) ==
    (UNION {t.reads : t \in Templates(b)}) \cup Range(b.rules)
      \cup ({b.slots[i].binds : i \in DOMAIN b.slots} \ {None})
ServedInScope ==
    \A scope \in Scopes \ {{}} : \A k \in Served(graph, env, scope) :
      Reads(graph.nodes[k].bp) \subseteq scope

(* Whatever recall or getBlueprint hands out, the executor can walk: it    *)
(* parses, no reference is left, its graph is acyclic and every bind token *)
(* of its queries has a slot or a rule.                                    *)
ServedIsRunnable ==
    \A k \in Served(graph, env, {}) :
      LET b == graph.nodes[k].bp
      IN  k[1] = "blueprint" =>
            /\ ParsesBlueprint(b) /\ RefNodes(b) = {} /\ IsDag(b.nodes)
            /\ \A t \in Templates(b) :
                 ReadOnly(t) /\ ReferencedSlots(t) \subseteq AllSlotTokens(b) \cup RuleTokens(b)

(* The depth-first search finds a cycle exactly when there is one, and     *)
(* otherwise lists every blueprint once, after its targets.                *)
Cyclic(graph0) ==
    \E S \in SUBSET DOMAIN graph0 :
      S # {} /\ \A x \in S : Range(graph0[x]) \cap S # {}
OrderSoundOf(n) ==
    LET byId == ById(SeedsOf(BlueprintExports[n]))
        refs == ReferenceGraph(byId)
        found == ResolutionOrder(refs, DOMAIN byId)
        at(x) == CHOOSE i \in DOMAIN found.order : found.order[i] = x
    IN  NoneDangling(byId) =>
          /\ found.cyclic <=> Cyclic(refs)
          /\ ~found.cyclic =>
               /\ IsInjective(found.order)
               /\ DOMAIN refs \subseteq Range(found.order)
               /\ \A x \in DOMAIN refs : \A y \in Range(refs[x]) : at(y) < at(x)
WellOrdered == {n \in DOMAIN BlueprintExports : OrderSoundOf(n)}
OrderSound == mcp.bps \in WellOrdered

(* Recall serves the whole published corpus, if it loads.                  *)
Servable(seed) ==
    /\ seed.source = "mcp" /\ seed.bp.uses # {}
    /\ seed.status \in {None, "validated"} /\ seed.drift # "suspect"
PublishedIsServed ==
    LET byId == Compiled[mcp.bps].byId
    IN  Compiled[mcp.bps].ok =>
          /\ \A x \in DOMAIN byId :
               Servable(byId[x]) => <<"blueprint", x>> \in Recalled(graph, env, {})
          /\ \A x \in KnowledgeExports[mcp.kns] : <<"knowledge", x>> \in Recalled(graph, env, {})

(* The one state a failure leaves for good.  A cycle compares its          *)
(* dimension with that of the indexes, and drops them before the           *)
(* transaction that clears: if that one is not reached, the next cycle     *)
(* finds no dimension and, under an unchanged model id, no change.  It     *)
(* makes new indexes over nodes of the old dimension, and load_corpus      *)
(* skips them by their sha.                                                *)
Stranded ==
    /\ \A c \in ModelKinds : graph.idx[c] = env.dim
    /\ \E k \in McpKeys(graph.nodes) :
         graph.nodes[k].model = env.model /\ graph.nodes[k].dim # env.dim

(* Once nobody publishes or deploys and no cycle fails any more, the       *)
(* published corpus is served, or the graph is stranded: apart from that a *)
(* crash at any point of a cycle costs time only.  The docstring of        *)
(* rebuild_mcp_corpus_partition wants <>[]PublishedIsServed.               *)
Recovers == <>[](PublishedIsServed \/ Stranded)

(* Stranding takes a deployment and an interruption of the cycle that      *)
(* follows it, by a failure or by another deployment.                      *)
StrandedByInterruption ==
    [](Stranded => count.deploys > 0 /\ count.deploys + count.failures > 1)

(* Whatever the hydrator loaded and whenever it stopped, what is served    *)
(* can run, reads what its caller may read, and was inlined in order.      *)
ServedSound == ServedInScope /\ ServedIsRunnable /\ OrderSound

(* What failures, stops and new deployments cost: the staging tier is      *)
(* never destroyed, and the published corpus comes back by itself, unless  *)
(* the failure stranded it (a new dimension under an unchanged model id).  *)
CorpusSurvives == LearningTierKept /\ Recovers /\ StrandedByInterruption
=============================================================================
