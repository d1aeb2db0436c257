---------------------- MODULE TransactionHandleProofs ----------------------
(***************************************************************************)
(* What the operations of TransactionHandle do, in lemmas that the proofs   *)
(* about both of its clients, PyTransaction and RsTransaction, cite.        *)
(***************************************************************************)
EXTENDS TransactionHandle, TLAPS

(* Appending to a log keeps it a log and adds the entry to what ran.        *)
LEMMA AppendLog ==
  ASSUME NEW l \in Seq(Entry), NEW x \in Entry
  PROVE  /\ Append(l, x) \in Seq(Entry)
         /\ \A y \in Entry : OnLog(Append(l, x), y) <=> y = x \/ OnLog(l, y)
<1>1. Append(l, x) \in Seq(Entry) /\ DOMAIN l = 1..Len(l) /\ Len(l) \in Nat
  OBVIOUS
<1>2. DOMAIN Append(l, x) = 1..(Len(l) + 1)
  OBVIOUS
<1>3. Append(l, x)[Len(l) + 1] = x /\ \A i \in 1..Len(l) : Append(l, x)[i] = l[i]
  OBVIOUS
<1> QED
  BY <1>1, <1>2, <1>3 DEF OnLog

(* Cutting a log at one of its entries keeps it a log and adds nothing.     *)
LEMMA CutLog ==
  ASSUME NEW l \in Seq(Entry), NEW i \in DOMAIN l
  PROVE  /\ SubSeq(l, 1, i) \in Seq(Entry)
         /\ \A y \in Entry : OnLog(SubSeq(l, 1, i), y) => OnLog(l, y)
<1>1. i \in 1..Len(l) /\ Len(l) \in Nat /\ DOMAIN l = 1..Len(l)
  OBVIOUS
<1>2. SubSeq(l, 1, i) \in Seq(Entry) /\ DOMAIN SubSeq(l, 1, i) = 1..i
  BY <1>1
<1>3. \A j \in 1..i : SubSeq(l, 1, i)[j] = l[j]
  BY <1>1
<1> QED
  BY <1>1, <1>2, <1>3 DEF OnLog

-----------------------------------------------------------------------------
(* The handle's operations keep the handle's types.                         *)
LEMMA HandleOpsType ==
  ASSUME HandleTypeOK, NEW h \in Tx, slot' \in Tx \cup {None},
         \/ \E a \in Alias : HandleBegin(h, a)
         \/ HandleCommit(h)
         \/ HandleRollback(h)
         \/ \E m \in Mark : HandleSavepoint(h, m)
         \/ \E m \in Mark : HandleRollbackTo(h, m)
         \/ \E s \in Stmt : HandleExecute(h, s)
         \/ \E s \in Stmt : PoolExecute(s)
         \/ HandleError(h)
  PROVE  HandleTypeOK'
<1> USE DEF HandleTypeOK, Entry
<1>1. CASE \E a \in Alias : HandleBegin(h, a)
  BY <1>1 DEF HandleBegin
<1>2. CASE HandleCommit(h)
  BY <1>2 DEF HandleCommit, Written
<1>3. CASE HandleRollback(h)
  BY <1>3 DEF HandleRollback, Held
<1>4. CASE \E m \in Mark : HandleSavepoint(h, m)
  BY <1>4, AppendLog DEF HandleSavepoint
<1>5. CASE \E m \in Mark : HandleRollbackTo(h, m)
  BY <1>5, CutLog DEF HandleRollbackTo
<1>6. CASE \E s \in Stmt : HandleExecute(h, s)
  BY <1>6, AppendLog DEF HandleExecute
<1>7. CASE \E s \in Stmt : PoolExecute(s)
  BY <1>7 DEF PoolExecute
<1>8. CASE HandleError(h)
  BY <1>8 DEF HandleError
<1> QED
  BY <1>1, <1>2, <1>3, <1>4, <1>5, <1>6, <1>7, <1>8

(* Only begin() leaves the state "unused".                                  *)
LEMMA UsedForGood ==
  ASSUME HandleTypeOK, NEW h \in Tx,
         \/ HandleCommit(h)
         \/ HandleRollback(h)
         \/ \E m \in Mark : HandleSavepoint(h, m)
         \/ \E m \in Mark : HandleRollbackTo(h, m)
         \/ \E s \in Stmt : HandleExecute(h, s)
         \/ \E s \in Stmt : PoolExecute(s)
         \/ HandleError(h)
  PROVE  \A g \in Tx : state'[g] = "unused" => state[g] = "unused"
BY DEF HandleTypeOK, HandleCommit, HandleRollback, HandleSavepoint,
       HandleRollbackTo, HandleExecute, PoolExecute, HandleError, Held

(* What the operations on a handle do to the writes on a log.               *)
LEMMA LogSteps ==
  ASSUME HandleTypeOK, NEW h \in Tx
  PROVE  /\ \A m \in Mark : HandleSavepoint(h, m) =>
              \A g \in Tx, s \in Stmt : Ran(g, s)' <=> Ran(g, s)
         /\ \A m \in Mark : HandleRollbackTo(h, m) =>
              \A g \in Tx, s \in Stmt : Ran(g, s)' => Ran(g, s)
         /\ \A x \in Stmt : HandleExecute(h, x) =>
              \A g \in Tx, s \in Stmt : Ran(g, s)' <=> Ran(g, s) \/ (g = h /\ s = x)
<1> USE DEF HandleTypeOK
<1>1. ASSUME NEW m \in Mark, HandleSavepoint(h, m), NEW g \in Tx, NEW s \in Stmt
      PROVE  Ran(g, s)' <=> Ran(g, s)
  <2>1. log'[h] = Append(log[h], m) /\ (g # h => log'[g] = log[g])
        /\ log[h] \in Seq(Entry) /\ m \in Entry /\ m # s /\ s \in Entry
    BY <1>1, MarkAssumption DEF HandleSavepoint, Entry
  <2>2. OnLog(log'[h], s) <=> OnLog(log[h], s)
    BY <2>1, AppendLog
  <2> QED
    BY <2>1, <2>2 DEF Ran
<1>2. ASSUME NEW m \in Mark, HandleRollbackTo(h, m), NEW g \in Tx, NEW s \in Stmt
      PROVE  Ran(g, s)' => Ran(g, s)
  <2>1. PICK i \in DOMAIN log[h] : log' = [log EXCEPT ![h] = SubSeq(@, 1, i)]
    BY <1>2 DEF HandleRollbackTo
  <2>2. log[h] \in Seq(Entry) /\ log'[h] = SubSeq(log[h], 1, i)
        /\ (g # h => log'[g] = log[g]) /\ s \in Entry
    BY <2>1 DEF Entry
  <2>3. OnLog(log'[h], s) => OnLog(log[h], s)
    BY <2>2, CutLog
  <2> QED
    BY <2>2, <2>3 DEF Ran
<1>3. ASSUME NEW x \in Stmt, HandleExecute(h, x), NEW g \in Tx, NEW s \in Stmt
      PROVE  Ran(g, s)' <=> Ran(g, s) \/ (g = h /\ s = x)
  <2>1. log'[h] = Append(log[h], x) /\ (g # h => log'[g] = log[g])
        /\ log[h] \in Seq(Entry) /\ x \in Entry /\ s \in Entry
    BY <1>3 DEF HandleExecute, Entry
  <2>2. OnLog(log'[h], s) <=> s = x \/ OnLog(log[h], s)
    BY <2>1, AppendLog
  <2> QED
    BY <2>1, <2>2 DEF Ran
<1> QED
  BY <1>1, <1>2, <1>3
=============================================================================
