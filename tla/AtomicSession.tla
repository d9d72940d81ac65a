--------------------------- MODULE AtomicSession ---------------------------
(***************************************************************************)
(* What the session store promises a request: every call either takes      *)
(* effect at one instant, on the document as it is at that instant, and    *)
(* answers accordingly, or it answers that it had no effect.  Only the     *)
(* creation of a document and the TTL discard anything.                    *)
(***************************************************************************)
EXTENDS Integers, FiniteSets

CONSTANTS
    Calls,      \* call ids
    Keys,       \* (turn, window, kind) keys of claim_finalization_block
    MaxBlocks   \* MAX_FINALIZATION_BLOCKS_PER_WINDOW

VARIABLES
    doc,   \* the session document, or NoDoc
    op,    \* op[c]: the operation call c asked for, or NoOp
    ret,   \* ret[c]: its answer, or "none"
    took   \* took[c]: the checkpoint that resume c consumed, or 0

atomicVars == <<doc, op, ret, took>>

NoDoc == [items |-> {}, cp |-> -1, used |-> FALSE]
NoKey == "nokey"
NoOp == <<"noop", NoKey>>

(* A new SessionDoc: no message, no checkpoint, no claim.                  *)
EmptyDoc == [items |-> {}, cp |-> 0, used |-> FALSE]

Kinds == {"append", "pause", "resume", "open"}
Ops == (Kinds \X {NoKey}) \cup ({"claim"} \X Keys)

(* Answers of a call that changed the document, and of one that did not.   *)
Effective == {"ok", "granted", "resumed"}
NoEffect == {"none", "opened", "refused", "consumed", "lost", "raised"}

(* The claims of key k the document has counted.                           *)
ClaimsOf(d, k, ops) == {c \in d.items : ops[c] = <<"claim", k>>}

(* What call c makes of document d.  A message, a trail entry and a merge  *)
(* into the analysis ledger are an item each; a claim is an item as long   *)
(* as its key has allowance left; a pause sets the checkpoint; a resume    *)
(* consumes it and appends the user's answer.                              *)
Answer(d, c, ops) ==
    CASE ops[c][1] \in {"append", "pause"} -> "ok"
      [] ops[c][1] = "claim" ->
           IF Cardinality(ClaimsOf(d, ops[c][2], ops)) >= MaxBlocks
           THEN "refused" ELSE "granted"
      [] ops[c][1] = "resume" -> IF d.cp = 0 \/ d.used THEN "consumed" ELSE "resumed"
      [] ops[c][1] = "open" -> "opened"

Effect(d, c, ops) ==
    IF Answer(d, c, ops) \notin Effective THEN d
    ELSE [items |-> d.items \cup {c},
          cp |-> IF ops[c][1] = "pause" THEN c ELSE d.cp,
          used |-> IF ops[c][1] = "pause" THEN FALSE
                   ELSE IF ops[c][1] = "resume" THEN TRUE ELSE d.used]

AtomicInit ==
    /\ doc = NoDoc
    /\ op = [c \in Calls |-> NoOp]
    /\ ret = [c \in Calls |-> "none"]
    /\ took = [c \in Calls |-> 0]

Invoke(c) ==
    /\ op[c] = NoOp
    /\ \E o \in Ops : op' = [op EXCEPT ![c] = o]
    /\ UNCHANGED <<doc, ret, took>>

(* The call takes effect and is answered, or its answer is lost.           *)
Perform(c) ==
    /\ op[c] # NoOp
    /\ ret[c] = "none"
    /\ doc # NoDoc
    /\ doc' = Effect(doc, c, op)
    /\ ret' \in {[ret EXCEPT ![c] = a] : a \in {Answer(doc, c, op), "raised"}}
    /\ took' = [took EXCEPT ![c] = IF ret'[c] = "resumed" THEN doc.cp ELSE @]
    /\ UNCHANGED op

(* The call ends without an effect of its own, and says so.                *)
DeclineAs(c, answers) ==
    /\ op[c] # NoOp
    /\ ret[c] = "none"
    /\ \E a \in answers : ret' = [ret EXCEPT ![c] = a]
    /\ UNCHANGED <<op, took>>

Decline(c) ==
    /\ DeclineAs(c, {"opened", "consumed", "lost", "raised"})
    /\ UNCHANGED doc

(* A new document, created for some call.                                  *)
Create ==
    /\ doc' = EmptyDoc
    /\ \/ UNCHANGED <<op, ret, took>>
       \/ \E c \in Calls : DeclineAs(c, {"opened", "raised"})

Expire ==
    /\ doc' = NoDoc
    /\ UNCHANGED <<op, ret, took>>

AtomicNext ==
    \/ \E c \in Calls : Invoke(c) \/ Perform(c) \/ Decline(c)
    \/ Create \/ Expire

AtomicSpec == AtomicInit /\ [][AtomicNext]_atomicVars
============================================================================
