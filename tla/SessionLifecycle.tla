------------------------- MODULE SessionLifecycle -------------------------
(***************************************************************************)
(* The session documents of the Couchbase session store, seen by the       *)
(* learning loop: the `learning_status` lifecycle flag, the recorded       *)
(* `learning_content_hash`, the transcript (only whether two transcripts   *)
(* are equal matters, so a transcript is its version number and            *)
(* compute_content_hash is the identity on versions), and the CAS token.   *)
(*                                                                         *)
(* CAS tokens.  A document's token changes with every write, so all that   *)
(* a `replace` under a token can tell is whether the document was written  *)
(* since the token was obtained.  fresh[s] is the set of workers whose     *)
(* token for s is still the stored one: a read adds the reader, a write    *)
(* empties it except for the writer that was handed the new token.         *)
(***************************************************************************)
EXTENDS Integers, FiniteSets

CONSTANTS
    Sessions,     \* session ids
    Workers,      \* processes that hold CAS tokens: sweepers and consumers
    MaxEdits,     \* bound: request-path writes per session
    MaxExpiries   \* bound: session TTL expiries, over all sessions

ASSUME LifecycleAssumption ==
    /\ MaxEdits \in Nat
    /\ MaxExpiries \in Nat

VARIABLES
    exists,    \* the sessions that have a document
    status,    \* learning_status
    content,   \* version of the transcript held by the document
    version,   \* last version number given out (a transcript never recurs)
    hash,      \* learning_content_hash, NoHash when unset
    idle,      \* sessions whose last_activity is before the sweep cutoff
    fresh,     \* per session, the workers whose CAS token is current
    edits,     \* request-path writes so far, per session
    expiries   \* expiries so far

docVars == <<exists, status, content, version, hash, idle, fresh>>
budgetVars == <<edits, expiries>>
sessionVars == <<docVars, budgetVars>>

NoHash == -1

Status == {"active", "pending", "queued", "processing", "done", "dead_letter"}

(* models.VALID_TRANSITIONS, as a set of edges. *)
ValidTransitions ==
    { <<"active", "pending">>,
      <<"pending", "queued">>, <<"pending", "dead_letter">>,
      <<"queued", "processing">>, <<"queued", "dead_letter">>,
      <<"processing", "done">>, <<"processing", "dead_letter">> }

(* models.RECOVERY_TRANSITIONS. *)
RecoveryTransitions ==
    { <<"processing", "processing">>, <<"done", "processing">> }

SessionTypeOK ==
    /\ exists \subseteq Sessions
    /\ status \in [Sessions -> Status]
    /\ content \in [Sessions -> Nat]
    /\ version \in [Sessions -> Nat]
    /\ hash \in [Sessions -> Nat \cup {NoHash}]
    /\ idle \subseteq exists
    /\ fresh \in [Sessions -> SUBSET Workers]
    /\ edits \in [Sessions -> 0..MaxEdits]
    /\ expiries \in 0..MaxExpiries

(* No document yet.  A missing document keeps in these functions the       *)
(* defaults a newly created SessionDoc has.                                *)
SessionInit ==
    /\ exists = {}
    /\ status = [s \in Sessions |-> "active"]
    /\ content = [s \in Sessions |-> 0]
    /\ version = [s \in Sessions |-> 0]
    /\ hash = [s \in Sessions |-> NoHash]
    /\ idle = {}
    /\ fresh = [s \in Sessions |-> {}]
    /\ edits = [s \in Sessions |-> 0]
    /\ expiries = 0

---------------------------------------------------------------------------
(* The request path                                                        *)

(* append_message / append_trail_entry through _mutate_with_cas_retry:     *)
(* create on miss, change the hashed content, bump last_activity.  The     *)
(* retry loop re-reads until its replace wins, so its net effect is one    *)
(* atomic read-modify-write.                                               *)
AppendMessage(s) ==
    /\ edits[s] < MaxEdits
    /\ edits' = [edits EXCEPT ![s] = @ + 1]
    /\ exists' = exists \cup {s}
    /\ version' = [version EXCEPT ![s] = @ + 1]
    /\ content' = [content EXCEPT ![s] = version[s] + 1]
    /\ idle' = idle \ {s}
    /\ fresh' = [fresh EXCEPT ![s] = {}]
    /\ UNCHANGED <<status, hash, expiries>>

(* bump_last_activity, apply_analysis_state, claim_finalization_block and  *)
(* write_pause_checkpoint: the same read-modify-write, leaving everything  *)
(* that compute_content_hash reads alone.                                  *)
TouchSession(s) ==
    /\ s \in exists
    /\ edits[s] < MaxEdits
    /\ edits' = [edits EXCEPT ![s] = @ + 1]
    /\ idle' = idle \ {s}
    /\ fresh' = [fresh EXCEPT ![s] = {}]
    /\ UNCHANGED <<exists, status, content, version, hash, expiries>>

(* The idle threshold passes without a write (sweeper._cutoff).            *)
GoIdle(s) ==
    /\ s \in exists \ idle
    /\ idle' = idle \cup {s}
    /\ UNCHANGED <<exists, status, content, version, hash, fresh, budgetVars>>

(* The session TTL runs out: Couchbase removes the document.               *)
Expire(s) ==
    /\ s \in idle
    /\ expiries < MaxExpiries
    /\ expiries' = expiries + 1
    /\ exists' = exists \ {s}
    /\ idle' = idle \ {s}
    /\ status' = [status EXCEPT ![s] = "active"]
    /\ hash' = [hash EXCEPT ![s] = NoHash]
    /\ version' = [version EXCEPT ![s] = @ + 1]
    /\ content' = [content EXCEPT ![s] = version[s] + 1]
    /\ fresh' = [fresh EXCEPT ![s] = {}]
    /\ UNCHANGED edits

---------------------------------------------------------------------------
(* The store operations of the learning loop                               *)

(* Mutation: SWEEPABLE_STATUSES without `pending`.                         *)
SweepableActiveOnly == {s \in idle : status[s] = "active"}

(* Eligible for scan_idle_sessions(statuses = SWEEPABLE_STATUSES).         *)
Sweepable == {s \in idle : status[s] \in {"active", "pending"}}

(* scan_idle_sessions returning the documents of S with their tokens.      *)
ScanIdleSessions(w, S) ==
    /\ fresh' = [s \in Sessions |-> IF s \in S THEN fresh[s] \cup {w} ELSE fresh[s]]
    /\ UNCHANGED <<exists, status, content, version, hash, idle, budgetVars>>

(* get_session_with_cas: a miss creates an empty document and reads its    *)
(* token.                                                                  *)
GetSessionWithCas(w, s) ==
    /\ exists' = exists \cup {s}
    /\ fresh' = [fresh EXCEPT ![s] = IF s \in exists THEN @ \cup {w} ELSE {w}]
    /\ UNCHANGED <<status, content, version, hash, idle, budgetVars>>

(* transition_learning_status succeeds exactly when the document is there, *)
(* the caller's token is current and, if asked, the from-state holds.      *)
CanTransition(w, s, from, assertFrom) ==
    /\ s \in exists
    /\ w \in fresh[s]
    /\ assertFrom => status[s] = from

(* Mutation: a transition leaves the tokens of the others valid.           *)
SetLearningStatusKeepingTokens(w, s, to, newHash) ==
    /\ status' = [status EXCEPT ![s] = to]
    /\ hash' = [hash EXCEPT ![s] = IF newHash = NoHash THEN @ ELSE newHash]
    /\ fresh' = [fresh EXCEPT ![s] = @ \cup {w}]
    /\ UNCHANGED <<exists, content, version, idle, budgetVars>>

(* Its effect: the flag, the hash when one is passed, a new token for the  *)
(* caller; last_activity and the TTL are preserved.                        *)
SetLearningStatus(w, s, to, newHash) ==
    /\ status' = [status EXCEPT ![s] = to]
    /\ hash' = [hash EXCEPT ![s] = IF newHash = NoHash THEN @ ELSE newHash]
    /\ fresh' = [fresh EXCEPT ![s] = {w}]
    /\ UNCHANGED <<exists, content, version, idle, budgetVars>>
============================================================================
