---------------------------- MODULE AtomicBlocks ----------------------------
(***************************************************************************)
(* What a transaction block promises its user, without handles, slots,     *)
(* ContextVars or connections: a write issued in a block takes effect with *)
(* that block and only with it, a write issued outside any block takes     *)
(* effect at once, and a block can undo part of its writes before it ends. *)
(***************************************************************************)
CONSTANTS Block, Stmt, None

VARIABLES
  phase,    \* "unused", "open", "committed" or "rolledback"
  pending,  \* the writes a block holds
  durable,  \* the writes that took effect
  answer,   \* "new", "pending", "ok" or "failed"
  home      \* the block a write belongs to

vars == <<phase, pending, durable, answer, home>>

Init ==
  /\ phase = [b \in Block |-> "unused"]
  /\ pending = [b \in Block |-> {}]
  /\ durable = {}
  /\ answer = [s \in Stmt |-> "new"]
  /\ home = [s \in Stmt |-> None]

Open(b) ==
  /\ phase[b] = "unused"
  /\ phase' = [phase EXCEPT ![b] = "open"]
  /\ UNCHANGED <<pending, durable, answer, home>>

Issue(s, b) ==
  /\ answer[s] = "new"
  /\ b # None => phase[b] # "unused"
  /\ answer' = [answer EXCEPT ![s] = "pending"]
  /\ home' = [home EXCEPT ![s] = b]
  /\ UNCHANGED <<phase, pending, durable>>

WriteInside(s) ==
  /\ answer[s] = "pending" /\ home[s] # None
  /\ phase[home[s]] = "open"
  /\ answer' = [answer EXCEPT ![s] = "ok"]
  /\ pending' = [pending EXCEPT ![home[s]] = @ \cup {s}]
  /\ UNCHANGED <<phase, durable, home>>

WriteOutside(s) ==
  /\ answer[s] = "pending" /\ home[s] = None
  /\ answer' = [answer EXCEPT ![s] = "ok"]
  /\ durable' = durable \cup {s}
  /\ UNCHANGED <<phase, pending, home>>

Refuse(s) ==
  /\ answer[s] = "pending"
  /\ answer' = [answer EXCEPT ![s] = "failed"]
  /\ home' = [home EXCEPT ![s] = None]
  /\ UNCHANGED <<phase, pending, durable>>

Undo(b, kept) ==
  /\ phase[b] = "open"
  /\ kept \subseteq pending[b]
  /\ pending' = [pending EXCEPT ![b] = kept]
  /\ UNCHANGED <<phase, durable, answer, home>>

Commit(b) ==
  /\ phase[b] = "open"
  /\ phase' = [phase EXCEPT ![b] = "committed"]
  /\ durable' = durable \cup pending[b]
  /\ UNCHANGED <<pending, answer, home>>

Abort(b) ==
  /\ phase[b] = "open"
  /\ phase' = [phase EXCEPT ![b] = "rolledback"]
  /\ UNCHANGED <<pending, durable, answer, home>>

Next ==
  \/ \E b \in Block : Open(b) \/ Commit(b) \/ Abort(b)
  \/ \E b \in Block, kept \in SUBSET Stmt : Undo(b, kept)
  \/ \E s \in Stmt, b \in Block \cup {None} : Issue(s, b)
  \/ \E s \in Stmt : WriteInside(s) \/ WriteOutside(s) \/ Refuse(s)

Spec == Init /\ [][Next]_vars
=============================================================================
