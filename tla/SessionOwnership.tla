------------------------- MODULE SessionOwnership -------------------------
(***************************************************************************)
(* What the learning loop promises about one session (D96, "single writer  *)
(* per session"), without queue, tokens or program counters:               *)
(*   - a session has at most one owner, the only one who can complete it;  *)
(*   - any request-path write takes the ownership away;                    *)
(*   - every hash ever recorded is the hash of the transcript the document *)
(*     holds at that moment.                                               *)
(***************************************************************************)
EXTENDS Integers

CONSTANTS Sessions, Consumers

VARIABLES
    st,     \* learning_status
    text,   \* transcript version
    rec,    \* recorded hash
    owner   \* {} or {c}: the consumer that may complete the session

ownershipVars == <<st, text, rec, owner>>

OwnershipInit ==
    /\ st = [s \in Sessions |-> "active"]
    /\ text = [s \in Sessions |-> 0]
    /\ rec = [s \in Sessions |-> -1]
    /\ owner = [s \in Sessions |-> {}]

(* Only the transcript of s changes, if any.                               *)
Retext(s) ==
    /\ text'[s] \in Nat
    /\ text' = [text EXCEPT ![s] = text'[s]]

(* A request-path write: a new transcript or the same one, the owner out.  *)
Write(s) ==
    /\ Retext(s)
    /\ owner' = [owner EXCEPT ![s] = {}]
    /\ UNCHANGED <<st, rec>>

(* The document expires; a later one with this id starts over.             *)
Forget(s) ==
    /\ st' = [st EXCEPT ![s] = "active"]
    /\ Retext(s)
    /\ rec' = [rec EXCEPT ![s] = -1]
    /\ owner' = [owner EXCEPT ![s] = {}]

Detect(s) ==
    /\ st[s] = "active"
    /\ st' = [st EXCEPT ![s] = "pending"]
    /\ UNCHANGED <<text, rec, owner>>

Submit(s) ==
    /\ st[s] = "pending"
    /\ st' = [st EXCEPT ![s] = "queued"]
    /\ rec' = [rec EXCEPT ![s] = text[s]]
    /\ UNCHANGED <<text, owner>>

(* The session may be taken over from its owner, or be run again.          *)
Start(s, c) ==
    /\ st[s] \in {"queued", "processing", "done"}
    /\ st' = [st EXCEPT ![s] = "processing"]
    /\ owner' = [owner EXCEPT ![s] = {c}]
    /\ UNCHANGED <<text, rec>>

Complete(s, c) ==
    /\ owner[s] = {c}
    /\ st[s] = "processing"
    /\ st' = [st EXCEPT ![s] = "done"]
    /\ rec' = [rec EXCEPT ![s] = text[s]]
    /\ owner' = [owner EXCEPT ![s] = {}]
    /\ UNCHANGED text

(* The owner gives up: a crash, an exception.                              *)
Lose(s) ==
    /\ owner' = [owner EXCEPT ![s] = {}]
    /\ UNCHANGED <<st, text, rec>>

Bury(s) ==
    /\ st[s] \notin {"done", "dead_letter"}
    /\ st' = [st EXCEPT ![s] = "dead_letter"]
    /\ owner' = [owner EXCEPT ![s] = {}]
    /\ UNCHANGED <<text, rec>>

OwnershipNext ==
    \E s \in Sessions :
        \/ Write(s) \/ Forget(s) \/ Detect(s) \/ Submit(s) \/ Lose(s) \/ Bury(s)
        \/ \E c \in Consumers : Start(s, c) \/ Complete(s, c)

OwnershipSpec == OwnershipInit /\ [][OwnershipNext]_ownershipVars
============================================================================
