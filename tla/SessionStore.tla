---------------------------- MODULE SessionStore ----------------------------
(***************************************************************************)
(* CouchbaseSessionStore as concurrent requests of one session use it.     *)
(* Each key-value command (get, upsert, replace) is one step; what is      *)
(* between two of them is another request's chance.  The learning loop's   *)
(* CAS transitions on the same document are in SessionLifecycle.           *)
(***************************************************************************)
EXTENDS AtomicSession

CONSTANTS
    Procs,         \* requests in flight at the same time
    MaxCalls,      \* bound: store calls
    MaxCasRetries, \* _MAX_CAS_RETRIES
    MaxExpiries,   \* bound: TTL expiries
    MaxTimeouts    \* bound: store commands that raise

ASSUME StoreAssumption ==
    /\ MaxCalls \in Nat
    /\ Calls = 1..MaxCalls
    /\ MaxBlocks \in Nat
    /\ MaxCasRetries \in Nat \ {0}
    /\ MaxExpiries \in Nat
    /\ MaxTimeouts \in Nat
    /\ NoKey \notin Keys

VARIABLES
    cas,      \* CAS of the stored document; grows with every write
    calls,    \* calls started so far
    pc,       \* where each request is in its call
    call,     \* the call it is in
    copy,     \* the document it has read
    token,    \* the CAS it will replace under
    attempt,  \* attempts of _mutate_with_cas_retry used up
    expiries, timeouts

procVars == <<pc, call, copy, token, attempt>>
vars == <<atomicVars, cas, calls, procVars, expiries, timeouts>>

PC == {"idle", "get", "recheck", "create", "reget", "resume_get", "replace"}

Doc == [items : SUBSET Calls, cp : {-1, 0} \cup Calls, used : BOOLEAN]

TypeOK ==
    /\ doc \in Doc
    /\ op \in [Calls -> Ops \cup {NoOp}]
    /\ ret \in [Calls -> Effective \cup NoEffect]
    /\ took \in [Calls -> {0} \cup Calls]
    /\ cas \in Nat
    /\ calls \in 0..MaxCalls
    /\ pc \in [Procs -> PC]
    /\ call \in [Procs -> {0} \cup Calls]
    /\ copy \in [Procs -> Doc]
    /\ token \in [Procs -> Nat]
    /\ attempt \in [Procs -> 0..(MaxCasRetries - 1)]
    /\ expiries \in 0..MaxExpiries
    /\ timeouts \in 0..MaxTimeouts

Init ==
    /\ AtomicInit
    /\ cas = 0
    /\ calls = 0
    /\ pc = [p \in Procs |-> "idle"]
    /\ call = [p \in Procs |-> 0]
    /\ copy = [p \in Procs |-> NoDoc]
    /\ token = [p \in Procs |-> 0]
    /\ attempt = [p \in Procs |-> 0]
    /\ expiries = 0
    /\ timeouts = 0

---------------------------------------------------------------------------
Kind(p) == op[call[p]][1]

GoTo(p, to) ==
    /\ pc' = [pc EXCEPT ![p] = to]
    /\ UNCHANGED <<call, copy, token, attempt>>

(* The call of p answers a.                                                *)
Return(p, a) ==
    /\ ret' = [ret EXCEPT ![call[p]] = a]
    /\ pc' = [pc EXCEPT ![p] = "idle"]
    /\ call' = [call EXCEPT ![p] = 0]
    /\ copy' = [copy EXCEPT ![p] = NoDoc]
    /\ token' = [token EXCEPT ![p] = 0]
    /\ attempt' = [attempt EXCEPT ![p] = 0]

(* A request calls append_message, append_trail_entry or                   *)
(* apply_analysis_state ("append"), claim_finalization_block,              *)
(* write_pause_checkpoint, get_or_create_session ("open"), or              *)
(* get_session_with_cas followed by resume_checkpoint ("resume").          *)
Start(p) ==
    /\ pc[p] = "idle"
    /\ calls < MaxCalls
    /\ calls' = calls + 1
    /\ \E o \in Ops : op' = [op EXCEPT ![calls + 1] = o]
    /\ pc' = [pc EXCEPT ![p] = "get"]
    /\ call' = [call EXCEPT ![p] = calls + 1]
    /\ UNCHANGED <<doc, ret, took, cas, copy, token, attempt, expiries, timeouts>>

(* The first _get_doc of every call: a hit gives the document and its CAS, *)
(* a miss goes to _create_session.                                         *)
Get(p) ==
    /\ pc[p] = "get"
    /\ \/ /\ doc = NoDoc
          /\ GoTo(p, "recheck")
          /\ UNCHANGED ret
       \/ /\ doc # NoDoc
          /\ Kind(p) = "open"
          /\ Return(p, "opened")
       \/ /\ doc # NoDoc
          /\ Kind(p) # "open"
          /\ pc' = [pc EXCEPT ![p] = IF Kind(p) = "resume" THEN "resume_get" ELSE "replace"]
          /\ copy' = [copy EXCEPT ![p] = doc]
          /\ token' = [token EXCEPT ![p] = cas]
          /\ UNCHANGED <<ret, call, attempt>>
    /\ UNCHANGED <<doc, op, took, cas, calls, expiries, timeouts>>

(* _create_session reads once more ...                                     *)
Recheck(p) ==
    /\ pc[p] = "recheck"
    /\ \/ /\ doc = NoDoc
          /\ GoTo(p, "create")
          /\ UNCHANGED ret
       \/ /\ doc # NoDoc
          /\ Kind(p) = "open"
          /\ Return(p, "opened")
       \/ /\ doc # NoDoc
          /\ Kind(p) # "open"
          /\ GoTo(p, "reget")
          /\ UNCHANGED ret
    /\ UNCHANGED <<doc, op, took, cas, calls, expiries, timeouts>>

(* ... and upserts an empty document, whatever is stored by then.          *)
CreateSession(p) ==
    /\ pc[p] = "create"
    /\ doc' = EmptyDoc
    /\ cas' = cas + 1
    /\ IF Kind(p) = "open" THEN Return(p, "opened") ELSE GoTo(p, "reget") /\ UNCHANGED ret
    /\ UNCHANGED <<op, took, calls, expiries, timeouts>>

(* The attempt failed: another one from a fresh read, or CASMismatchError. *)
Retry(p) ==
    IF attempt[p] + 1 < MaxCasRetries
    THEN /\ pc' = [pc EXCEPT ![p] = "get"]
         /\ attempt' = [attempt EXCEPT ![p] = @ + 1]
         /\ UNCHANGED <<ret, call, copy, token>>
    ELSE Return(p, "lost")

(* The read that obtains the CAS of a created document.  A document that   *)
(* is gone again costs _mutate_with_cas_retry an attempt.                  *)
Reget(p) ==
    /\ pc[p] = "reget"
    /\ \/ /\ doc = NoDoc
          /\ Kind(p) # "resume"
          /\ Retry(p)
       \/ /\ doc # NoDoc
          /\ pc' = [pc EXCEPT ![p] = IF Kind(p) = "resume" THEN "resume_get" ELSE "replace"]
          /\ copy' = [copy EXCEPT ![p] = doc]
          /\ token' = [token EXCEPT ![p] = cas]
          /\ UNCHANGED <<ret, call, attempt>>
    /\ UNCHANGED <<doc, op, took, cas, calls, expiries, timeouts>>

(* Mutation: the checkpoint of the first read is trusted.                  *)
ResumeGetUnchecked(p) ==
    /\ pc[p] = "resume_get"
    /\ pc' = [pc EXCEPT ![p] = "replace"]
    /\ token' = [token EXCEPT ![p] = cas]
    /\ UNCHANGED <<ret, call, copy, attempt>>
    /\ UNCHANGED <<doc, op, took, cas, calls, expiries, timeouts>>

(* resume_checkpoint reads the document again and refuses unless it has an *)
(* unconsumed checkpoint; it will replace under the caller's token.        *)
ResumeGet(p) ==
    /\ pc[p] = "resume_get"
    /\ \/ /\ doc = NoDoc \/ Answer(doc, call[p], op) = "consumed"
          /\ Return(p, "consumed")
       \/ /\ doc # NoDoc /\ Answer(doc, call[p], op) = "resumed"
          /\ pc' = [pc EXCEPT ![p] = "replace"]
          /\ copy' = [copy EXCEPT ![p] = doc]
          /\ UNCHANGED <<ret, call, token, attempt>>
    /\ UNCHANGED <<doc, op, took, cas, calls, expiries, timeouts>>

(* Mutation: the replace does not pass the CAS.                            *)
ReplaceWinsAlways(p) == doc # NoDoc

(* A replace succeeds exactly on a document written by nobody since the    *)
(* token was read.                                                         *)
ReplaceWins(p) == doc # NoDoc /\ token[p] = cas

(* The mutated copy becomes the document; the answer is the one the        *)
(* winning attempt computed.                                               *)
WriteCopy(p) ==
    /\ doc' = Effect(copy[p], call[p], op)
    /\ cas' = cas + 1

(* The CAS-guarded replace.  _mutate_with_cas_retry tries again after a    *)
(* mismatch, resume_checkpoint gives up; a document that is gone raises.   *)
Replace(p) ==
    /\ pc[p] = "replace"
    /\ \/ /\ ReplaceWins(p)
          /\ WriteCopy(p)
          /\ Return(p, Answer(copy[p], call[p], op))
          /\ took' = [took EXCEPT ![call[p]] = IF Kind(p) = "resume" THEN copy[p].cp ELSE @]
       \/ /\ doc = NoDoc
          /\ Return(p, "raised")
          /\ UNCHANGED <<doc, cas, took>>
       \/ /\ doc # NoDoc /\ ~ReplaceWins(p)
          /\ IF Kind(p) = "resume" THEN Return(p, "lost") ELSE Retry(p)
          /\ UNCHANGED <<doc, cas, took>>
    /\ UNCHANGED <<op, calls, expiries, timeouts>>

(* A command raises, a time-out for one: the call raises, and what it was  *)
(* about to write is or is not written.                                    *)
Timeout(p) ==
    /\ pc[p] # "idle"
    /\ timeouts < MaxTimeouts
    /\ timeouts' = timeouts + 1
    /\ \/ UNCHANGED <<doc, cas>>
       \/ pc[p] = "create" /\ doc' = EmptyDoc /\ cas' = cas + 1
       \/ pc[p] = "replace" /\ ReplaceWins(p) /\ WriteCopy(p)
    /\ Return(p, "raised")
    /\ UNCHANGED <<op, took, calls, expiries>>

(* The session TTL runs out.  Not between the upsert that arms it and the  *)
(* read after it, which get_session_with_cas takes for granted.            *)
SessionExpires ==
    /\ doc # NoDoc
    /\ expiries < MaxExpiries
    /\ \A p \in Procs : pc[p] = "reget" => Kind(p) # "resume"
    /\ expiries' = expiries + 1
    /\ doc' = NoDoc
    /\ UNCHANGED <<op, ret, took, cas, calls, procVars, timeouts>>

Step(p) ==
    \/ Start(p) \/ Get(p) \/ Recheck(p) \/ CreateSession(p) \/ Reget(p)
    \/ ResumeGet(p) \/ Replace(p) \/ Timeout(p)

Next ==
    \/ \E p \in Procs : Step(p)
    \/ SessionExpires

Spec == Init /\ [][Next]_vars
---------------------------------------------------------------------------
(* Properties                                                              *)

(* The store implements AtomicSession: every append, claim, pause and      *)
(* resume is one atomic read-modify-write of the document it took effect   *)
(* on, however the gets and replaces of concurrent requests interleave     *)
(* (_mutate_with_cas_retry, "a concurrent state write cannot be clobbered  *)
(* by a value derived from a stale read").                                 *)
ImplementsAtomic == AtomicSpec

(* A checkpoint is consumed by at most one resume (resume_checkpoint, D45),*)
(* also when two resumes read it before either wrote.                      *)
ResumedOnce ==
    \A c, d \in Calls :
        ret[c] = "resumed" /\ ret[d] = "resumed" /\ took[c] = took[d] => c = d

(* Only a creation or the TTL discards anything: while a document lives,   *)
(* every message, trail entry and granted claim in it stays, so a claim    *)
(* that was granted is seen by every later claim of its key                *)
(* (claim_finalization_block, "a concurrent claimant cannot also see       *)
(* unspent").                                                              *)
OnlyCreationDiscards ==
    [][doc' \in {NoDoc, EmptyDoc} \/ doc.items \subseteq doc'.items]_vars

---------------------------------------------------------------------------
(* The inductive invariant                                                 *)

(* A request that is in a call has one of its own, not answered yet.       *)
OwnCall(p) ==
    pc[p] # "idle" =>
        /\ call[p] \in 1..calls
        /\ op[call[p]] \in Ops
        /\ ret[call[p]] = "none"

CallsOwned ==
    /\ \A p \in Procs : OwnCall(p)
    /\ \A p, q \in Procs : pc[p] # "idle" /\ pc[q] # "idle" /\ call[p] = call[q] => p = q
    /\ \A c \in Calls : c > calls => op[c] = NoOp /\ ret[c] = "none"

(* A token that is current stands for a copy that is current.              *)
CopyCurrent ==
    \A p \in Procs :
        /\ token[p] <= cas
        /\ pc[p] = "replace" /\ ReplaceWins(p) => copy[p] = doc

(* A resume about to write has seen an unconsumed checkpoint.              *)
ResumeReady ==
    \A p \in Procs :
        /\ pc[p] = "reget" => Kind(p) # "open"
        /\ pc[p] = "resume_get" => Kind(p) = "resume"
        /\ pc[p] = "replace" => Kind(p) # "open"
        /\ pc[p] = "replace" /\ Kind(p) = "resume" => copy[p].cp \in Calls /\ ~copy[p].used

(* A checkpoint comes from a call that has ended, and one that was resumed *)
(* is no longer open.                                                      *)
CheckpointsSpent ==
    /\ doc = NoDoc \/ doc.cp \in {0} \cup Calls
    /\ doc.cp \in Calls => ret[doc.cp] # "none"
    /\ \A c \in Calls : ret[c] = "resumed" =>
         /\ took[c] \in Calls
         /\ ret[took[c]] # "none"
         /\ doc.cp = took[c] => doc.used

IInv ==
    /\ TypeOK
    /\ CallsOwned
    /\ CopyCurrent
    /\ ResumeReady
    /\ CheckpointsSpent
    /\ ResumedOnce
============================================================================
