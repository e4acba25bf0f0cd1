--------------------------- MODULE ConnectionProofs ---------------------------
(***************************************************************************)
(* Proofs about Connection, for every value of its constants.  The lemmas  *)
(* follow the code: what the session may do to a state, what an adapter    *)
(* may, what each method of Connection may; the theorems come last.        *)
(***************************************************************************)
EXTENDS Connection, SequenceTheorems, WellFoundedInduction, TLAPS

(* The fields of Connection that no adapter can touch.                     *)
SameFields(s, t) ==
  /\ t.autoCommit = s.autoCommit
  /\ t.connected = s.connected
  /\ t.level = s.level
  /\ t.rollbackOnly = s.rollbackOnly

(* Outcomes of a statement, and of an adapter's transaction call. *)
Served(s, os) == \A o \in os : o \in Outcome /\ SameFields(s, o.s) /\ o.s.inTx = s.inTx
Driven(s, os) == \A o \in os : o \in Outcome /\ SameFields(s, o.s)

-----------------------------------------------------------------------------
LEMMA PendingType ==
  ASSUME NEW tx \in Seq(Frame)
  PROVE  Pending(tx) \in SUBSET Writes
<1>1. \A i \in DOMAIN tx : tx[i] \in Frame
  OBVIOUS
<1>2. \A i \in DOMAIN tx : tx[i].writes \subseteq Writes
  BY <1>1 DEF Frame
<1> QED BY <1>2 DEF Pending

(* What a session does to its own state leaves the Connection's fields.    *)
LEMMA SessionStates ==
  ASSUME NEW s \in State
  PROVE  /\ NoTx(s) \in State /\ SameFields(s, NoTx(s)) /\ NoTx(s).inTx = s.inTx
         /\ Abort(s) \in State /\ SameFields(s, Abort(s)) /\ Abort(s).inTx = s.inTx
         /\ Lose(s) \in State /\ SameFields(s, Lose(s)) /\ Lose(s).inTx = s.inTx
<1>1. <<>> \in Seq(Frame)
  OBVIOUS
<1>2. NoTx(s) \in State /\ SameFields(s, NoTx(s)) /\ NoTx(s).inTx = s.inTx
  BY <1>1 DEF NoTx, State, SameFields
<1>3. (Adapter = "pg" /\ s.tx # <<>>) \in BOOLEAN
  OBVIOUS
<1>4. Abort(s) \in State /\ SameFields(s, Abort(s)) /\ Abort(s).inTx = s.inTx
  BY <1>3 DEF Abort, State, SameFields
<1>5. Lose(s) \in State /\ SameFields(s, Lose(s)) /\ Lose(s).inTx = s.inTx
  BY <1>2, DriverAssumption DEF Lose, State, SameFields
<1> QED BY <1>2, <1>4, <1>5

LEMMA SimpleOutcomes ==
  ASSUME NEW s \in State
  PROVE  /\ Served(s, Returns(s)) /\ Served(s, Throws(s)) /\ Served(s, Reject(s))
         /\ Served(s, Losses(s)) /\ Served(s, Failures(s))
<1>1. ASSUME NEW t \in State, NEW e \in Ends, SameFields(s, t), t.inTx = s.inTx
      PROVE  Served(s, {[s |-> t, err |-> e]})
  <2>1. [s |-> t, err |-> e] \in Outcome
    BY DEF Outcome
  <2> QED BY <1>1, <2>1 DEF Served
<1>2. SameFields(s, s)
  BY DEF SameFields
<1>3. "none" \in Ends /\ "fail" \in Ends /\ "lost" \in Ends
  BY DEF Ends
<1>4. Served(s, Returns(s)) /\ Served(s, Throws(s))
  BY <1>1, <1>2, <1>3 DEF Returns, Throws
<1>5. Served(s, Reject(s))
  <2>1. Served(s, Throws(Abort(s)))
    BY <1>1, <1>3, SessionStates DEF Throws
  <2> QED BY <2>1, <1>1, <1>2, <1>3 DEF Reject
<1>6. Served(s, {[s |-> Lose(s), err |-> "lost"]})
  BY <1>1, <1>3, SessionStates
<1>7. Served(s, Losses(s))
  BY <1>6 DEF Losses, Served
<1>8. Served(s, {[s |-> Abort(s), err |-> "fail"]}) /\ Served(s, {[s |-> NoTx(s), err |-> "fail"]})
  BY <1>1, <1>3, SessionStates
<1>9. Served(s, Failures(s))
  BY <1>7, <1>8 DEF Failures, Served
<1> QED BY <1>4, <1>5, <1>7, <1>9

LEMMA ExecServes ==
  ASSUME NEW s \in State, NEW t \in State, SameFields(s, t), t.inTx = s.inTx
  PROVE  Served(s, Exec(s, t))
<1>1. Served(s, {[s |-> s, err |-> "lost"]})
  BY DEF Served, Outcome, Ends, SameFields
<1>2. Served(s, Returns(t))
  BY DEF Served, Outcome, Ends, Returns
<1> QED BY <1>1, <1>2, SimpleOutcomes DEF Exec, Served

LEMMA ExecDrives ==
  ASSUME NEW s \in State, NEW t \in State, SameFields(s, t)
  PROVE  Driven(s, Exec(s, t))
<1>1. Driven(s, {[s |-> s, err |-> "lost"]})
  BY DEF Driven, Outcome, Ends, SameFields
<1>2. Driven(s, Returns(t))
  BY DEF Driven, Outcome, Ends, Returns
<1> QED BY <1>1, <1>2, SimpleOutcomes DEF Exec, Driven, Served

LEMMA WithTx ==
  ASSUME NEW s \in State, NEW f \in Seq(Frame)
  PROVE  /\ [s EXCEPT !.tx = f] \in State
         /\ SameFields(s, [s EXCEPT !.tx = f])
         /\ [s EXCEPT !.tx = f].inTx = s.inTx
BY DEF State, SameFields

LEMMA MarkType ==
  ASSUME NEW n \in Nat
  PROVE  Mark(n) \in Frame /\ <<Mark(1)>> \in Seq(Frame)
BY DEF Mark, Frame

-----------------------------------------------------------------------------
(* Statements. *)

LEMMA WrittenState ==
  ASSUME NEW s \in State, NEW w \in Writes
  PROVE  Written(s, w) \in State /\ SameFields(s, Written(s, w)) /\ Written(s, w).inTx = s.inTx
<1>1. CASE s.tx = <<>>
  BY <1>1 DEF Written, State, SameFields
<1>2. CASE s.tx # <<>>
  <2>1. Len(s.tx) \in 1 .. Len(s.tx) /\ s.tx \in Seq(Frame)
    BY <1>2 DEF State
  <2>2. s.tx[Len(s.tx)] \in Frame
    BY <2>1
  <2>3. [s.tx[Len(s.tx)] EXCEPT !.writes = @ \cup {w}] \in Frame
    BY <2>2 DEF Frame
  <2>4. [s.tx EXCEPT ![Len(s.tx)].writes = @ \cup {w}] \in Seq(Frame)
    BY <2>1, <2>3
  <2> QED BY <1>2, <2>4 DEF Written, State, SameFields
<1> QED BY <1>1, <1>2

LEMMA DriverExecServes ==
  ASSUME NEW s \in State, NEW w \in Writes
  PROVE  Served(s, DriverExec(s, w))
<1>1. Served(s, Exec(s, Written(s, w)))
  BY WrittenState, ExecServes
<1>2. [s |-> s, err |-> "denied"] \in Outcome /\ SameFields(s, s)
  BY DEF Outcome, Ends, SameFields
<1> QED BY <1>1, <1>2 DEF DriverExec, Served

LEMMA SavepointServes ==
  ASSUME NEW s \in State, NEW n \in Nat
  PROVE  Served(s, ExecSavepoint(s, n))
<1>1. s.tx \in Seq(Frame) /\ SameFields(s, s)
  BY DEF State, SameFields
<1>2. Append(s.tx, Mark(n)) \in Seq(Frame)
  BY <1>1, MarkType
<1>3. Served(s, Exec(s, [s EXCEPT !.tx = Append(@, Mark(n))]))
  BY <1>2, WithTx, ExecServes
<1> QED BY <1>1, <1>3, ExecServes, SimpleOutcomes DEF ExecSavepoint

LEMMA RollbackToServes ==
  ASSUME NEW s \in State, NEW n \in Nat
  PROVE  Served(s, ExecRollbackTo(s, n))
<1>1. ASSUME NEW i \in Last(s.tx, n)
      PROVE  LET t == RolledBackTo(s, i, n)
             IN  t \in State /\ SameFields(s, t) /\ t.inTx = s.inTx
  <2>1. i \in 1 .. Len(s.tx) /\ s.tx \in Seq(Frame)
    BY DEF Last, State
  <2>2. SubSeq(s.tx, 1, i - 1) \in Seq(Frame)
    BY <2>1
  <2>3. Append(SubSeq(s.tx, 1, i - 1), Mark(n)) \in Seq(Frame)
    BY <2>2, MarkType
  <2> QED BY <2>3 DEF RolledBackTo, State, SameFields
<1>2. ASSUME NEW i \in Last(s.tx, n)
      PROVE  [s |-> RolledBackTo(s, i, n), err |-> "none"] \in Outcome
  BY <1>1 DEF Outcome, Ends
<1> QED BY <1>1, <1>2, SimpleOutcomes DEF ExecRollbackTo, Served

LEMMA ReleaseServes ==
  ASSUME NEW s \in State, NEW n \in Nat
  PROVE  Served(s, ExecRelease(s, n))
<1>1. ASSUME NEW i \in Last(s.tx, n)
      PROVE  LET t == Released(s, i)
             IN  t \in State /\ SameFields(s, t) /\ t.inTx = s.inTx
  <2>1. i \in 1 .. Len(s.tx) /\ s.tx \in Seq(Frame)
    BY DEF Last, State
  <2>2. CASE i = 1
    BY <2>2, <2>1, PendingType, SessionStates, ZenonT(60) DEF Released, State, SameFields
  <2>3. CASE i # 1
    <3>1. i - 1 \in 1 .. Len(s.tx) /\ s.tx[i - 1] \in Frame
      BY <2>1, <2>3
    <3>2. SubSeq(s.tx, i, Len(s.tx)) \in Seq(Frame) /\ SubSeq(s.tx, 1, i - 2) \in Seq(Frame)
      BY <2>1, <2>3
    <3> DEFINE kept == s.tx[i - 1].writes \cup Pending(SubSeq(s.tx, i, Len(s.tx)))
    <3>3. [sp |-> s.tx[i - 1].sp, writes |-> kept] \in Frame
      BY <3>1, <3>2, PendingType DEF Frame
    <3>4. Append(SubSeq(s.tx, 1, i - 2), [sp |-> s.tx[i - 1].sp, writes |-> kept]) \in Seq(Frame)
      BY <3>2, <3>3
    <3> QED BY <2>3, <3>4, WithTx DEF Released
  <2> QED BY <2>2, <2>3
<1>2. ASSUME NEW i \in Last(s.tx, n) PROVE Served(s, Exec(s, Released(s, i)))
  BY <1>1, ExecServes
<1> QED BY <1>2, SimpleOutcomes DEF ExecRelease, Served

-----------------------------------------------------------------------------
(* The adapters' transaction calls. *)

LEMMA BegunState ==
  ASSUME NEW s \in State
  PROVE  Begun(s) \in State /\ SameFields(s, Begun(s))
BY MarkType DEF Begun, State, SameFields

LEMMA BeginDrives ==
  ASSUME NEW s \in State
  PROVE  Driven(s, DriverBegin(s))
<1>1. Driven(s, Throws(s)) /\ Driven(s, Reject(s))
  BY SimpleOutcomes DEF Served, Driven
<1>2. Driven(s, Exec(s, Begun(s)))
  BY BegunState, ExecDrives
<1>3. Driven(s, SQLite3Begin(s)) /\ Driven(s, MSSQLBegin(s))
  BY <1>1, <1>2 DEF SQLite3Begin, MSSQLBegin
<1>4. [s EXCEPT !.inTx = TRUE] \in State /\ SameFields(s, [s EXCEPT !.inTx = TRUE])
  BY DEF State, SameFields
<1>5. Driven(s, PgBegin(s))
  BY <1>1, <1>2, <1>4, ExecDrives DEF PgBegin
<1>6. Driven(s, MySQL2Begin(s))
  <2> DEFINE t == [Begun(s) EXCEPT !.durable = @ \cup Pending(s.tx)]
  <2>1. Pending(s.tx) \in SUBSET Writes
    BY PendingType DEF State
  <2>2. t \in State /\ SameFields(s, t)
    BY <2>1, BegunState DEF State, SameFields
  <2>3. Driven(s, Exec(s, t))
    BY <2>2, ExecDrives
  <2>4. ASSUME NEW o \in Exec(s, t)
        PROVE  LET p == [o EXCEPT !.s = IF Pooled /\ o.err # "none" THEN NoTx(@) ELSE @]
               IN  p \in Outcome /\ SameFields(s, p.s)
    <3>1. o \in Outcome /\ SameFields(s, o.s) /\ o.s \in State
      BY <2>3 DEF Driven, Outcome
    <3>2. NoTx(o.s) \in State /\ SameFields(o.s, NoTx(o.s))
      BY <3>1, SessionStates
    <3> QED BY <3>1, <3>2 DEF Outcome, SameFields
  <2> QED BY <1>1, <2>4 DEF MySQL2Begin, Driven
<1> QED BY <1>3, <1>5, <1>6, DriverAssumption DEF DriverBegin

LEMMA ExecEndDrives ==
  ASSUME NEW s \in State, NEW done \in State, SameFields(s, done)
  PROVE  Driven(s, ExecEnd(s, done))
<1>1. ASSUME NEW t \in State, NEW e \in Ends, SameFields(s, t)
      PROVE  Driven(s, {[s |-> t, err |-> e]})
  <2>1. [s |-> t, err |-> e] \in Outcome
    BY DEF Outcome
  <2> QED BY <1>1, <2>1 DEF Driven
<1>2. SameFields(s, s)
  BY DEF SameFields
<1>3. "none" \in Ends /\ "fail" \in Ends /\ "lost" \in Ends
  BY DEF Ends
<1>4. Driven(s, {[s |-> s, err |-> "lost"]}) /\ Driven(s, {[s |-> s, err |-> "fail"]})
  BY <1>1, <1>2, <1>3
<1>5. Driven(s, {[s |-> NoTx(s), err |-> "fail"]})
  BY <1>1, <1>3, SessionStates
<1>6. Lose(done) \in State /\ SameFields(s, Lose(done)) /\ Lose(s) \in State /\ SameFields(s, Lose(s))
  BY SessionStates DEF SameFields
<1>7. Driven(s, {[s |-> Lose(done), err |-> "lost"]}) /\ Driven(s, {[s |-> Lose(s), err |-> "lost"]})
  BY <1>1, <1>3, <1>6
<1>8. Driven(s, EndFailures(s, done))
  BY <1>4, <1>5, <1>7 DEF EndFailures, Driven
<1>9. Driven(s, Returns(done)) /\ Driven(s, Throws(s))
  BY <1>1, <1>2, <1>3 DEF Returns, Throws
<1> QED BY <1>4, <1>8, <1>9 DEF ExecEnd, Driven

LEMMA ForgetDrives ==
  ASSUME NEW s \in State, NEW os, Driven(s, os)
  PROVE  /\ Driven(s, ForgetOnSuccess(os))
         /\ Driven(s, ForgetAlways(os)) /\ \A o \in ForgetAlways(os) : ~ o.s.inTx
<1>1. ASSUME NEW o \in os, NEW b \in BOOLEAN
      PROVE  LET p == [o EXCEPT !.s.inTx = b]
             IN  p \in Outcome /\ SameFields(s, p.s) /\ p.s.inTx = b
  <2>1. o \in Outcome /\ SameFields(s, o.s)
    BY DEF Driven
  <2>2. [o.s EXCEPT !.inTx = b] \in State /\ SameFields(s, [o.s EXCEPT !.inTx = b])
    BY <2>1 DEF Outcome, State, SameFields
  <2> QED BY <2>1, <2>2 DEF Outcome, State
<1>2. \A o \in os : (o.err # "none") \in BOOLEAN
  OBVIOUS
<1>3. Driven(s, ForgetOnSuccess(os))
  BY <1>1, <1>2 DEF ForgetOnSuccess, Driven
<1>4. Driven(s, ForgetAlways(os)) /\ \A o \in ForgetAlways(os) : ~ o.s.inTx
  BY <1>1 DEF ForgetAlways, Driven
<1> QED BY <1>3, <1>4

(* The adapters that release their session in a finally block. *)
Releases == Adapter \in {"pg", "mysql2"}

LEMMA CommitDrives ==
  ASSUME NEW s \in State
  PROVE  /\ Driven(s, DriverCommit(s))
         /\ Releases => \A o \in DriverCommit(s) : ~ o.s.inTx
<1>1. Pending(s.tx) \in SUBSET Writes
  BY PendingType DEF State
<1>2. Committed(s) \in State /\ SameFields(s, Committed(s))
  BY <1>1, SessionStates DEF Committed, State, SameFields
<1>3. Driven(s, ExecEnd(s, Committed(s)))
  BY <1>2, ExecEndDrives
<1>4. Driven(s, Throws(s)) /\ (~ s.inTx => \A o \in Throws(s) : ~ o.s.inTx)
  BY SimpleOutcomes DEF Served, Driven, Throws
<1>5. Driven(s, SQLite3Commit(s)) /\ Driven(s, MSSQLCommit(s))
  BY <1>3, <1>4, ForgetDrives DEF SQLite3Commit, MSSQLCommit
<1>6. /\ Driven(s, PgCommit(s)) /\ \A o \in PgCommit(s) : ~ o.s.inTx
      /\ Driven(s, MySQL2Commit(s)) /\ \A o \in MySQL2Commit(s) : ~ o.s.inTx
  BY <1>3, <1>4, ForgetDrives DEF PgCommit, MySQL2Commit
<1> QED BY <1>5, <1>6, DriverAssumption DEF DriverCommit, Releases

LEMMA RollBackDrives ==
  ASSUME NEW s \in State
  PROVE  /\ Driven(s, DriverRollBack(s))
         /\ Releases => \A o \in DriverRollBack(s) : ~ o.s.inTx
<1>1. Driven(s, ExecEnd(s, NoTx(s)))
  BY SessionStates, ExecEndDrives
<1>2. Driven(s, Throws(s)) /\ (~ s.inTx => \A o \in Throws(s) : ~ o.s.inTx)
  BY SimpleOutcomes DEF Served, Driven, Throws
<1>3. Driven(s, SQLite3RollBack(s)) /\ Driven(s, MSSQLRollBack(s))
  BY <1>1, <1>2, ForgetDrives DEF SQLite3RollBack, MSSQLRollBack
<1>4. /\ Driven(s, PgRollBack(s)) /\ \A o \in PgRollBack(s) : ~ o.s.inTx
      /\ Driven(s, MySQL2RollBack(s)) /\ \A o \in MySQL2RollBack(s) : ~ o.s.inTx
  BY <1>1, <1>2, ForgetDrives DEF PgRollBack, MySQL2RollBack
<1> QED BY <1>3, <1>4, DriverAssumption DEF DriverRollBack, Releases

LEMMA CloseDrives ==
  ASSUME NEW s \in State
  PROVE  /\ Driven(s, DriverClose(s))
         /\ Releases => \A o \in DriverClose(s) : o.err = "none"
<1>1. Driven(s, ExecEnd(s, NoTx(s)))
  BY SessionStates, ExecEndDrives
<1>2. ASSUME NEW t \in State, SameFields(s, t), NEW e \in Ends
      PROVE  /\ [s |-> [t EXCEPT !.inTx = FALSE], err |-> e] \in Outcome
             /\ SameFields(s, [t EXCEPT !.inTx = FALSE])
  BY <1>2 DEF Outcome, State, SameFields
<1>3. SameFields(s, s) /\ "none" \in Ends /\ "fail" \in Ends
  BY DEF SameFields, Ends
<1>4. Driven(s, Returns(s))
  BY SimpleOutcomes DEF Served, Driven
<1>5. \A o \in ExecEnd(s, NoTx(s)) : o.s \in State /\ SameFields(s, o.s)
  BY <1>1 DEF Driven, Outcome
<1>6. Driven(s, SQLite3Close(s))
  BY <1>2, <1>3, <1>5, SessionStates DEF SQLite3Close, Returns, Driven
<1>7. Driven(s, PgClose(s)) /\ \A o \in PgClose(s) : o.err = "none"
  BY <1>2, <1>3, <1>4, <1>5 DEF PgClose, Returns, Driven
<1>8. Driven(s, MySQL2Close(s)) /\ \A o \in MySQL2Close(s) : o.err = "none"
  BY <1>2, <1>3 DEF MySQL2Close, Returns, Driven
<1>9. Driven(s, MSSQLClose(s))
  BY <1>1, <1>4, ForgetDrives DEF MSSQLClose
<1> QED BY <1>6, <1>7, <1>8, <1>9, DriverAssumption DEF DriverClose, Releases

-----------------------------------------------------------------------------
(* The methods of Connection.  A state is Good when it satisfies, besides  *)
(* its type, what the theorems say of every reachable one.                 *)

Good(s) ==
  /\ s \in State
  /\ ~ s.connected => s.level = 0 /\ ~ s.inTx
  /\ s.rollbackOnly => s.level # 0
  /\ Releases => (s.level = 0 => ~ s.inTx)

Safe(os) == \A o \in os : o \in Outcome /\ Good(o.s)

LEMMA ServedIsSafe ==
  ASSUME NEW s, Good(s), NEW os, Served(s, os)
  PROVE  Safe(os)
BY DEF Good, Served, Safe, SameFields, Outcome

LEMMA ThrowsSafe ==
  ASSUME NEW s, Good(s)
  PROVE  Safe(Throws(s)) /\ Safe(Returns(s))
BY SimpleOutcomes, ServedIsSafe DEF Good

LEMMA ReturnsAndThrows ==
  ASSUME NEW s
  PROVE  /\ \A o \in Returns(s) : o.s = s /\ o.err = "none"
         /\ \A o \in Throws(s) : o.s = s /\ o.err = "fail"
BY DEF Returns, Throws

(* The state of a Connection that dropped its driver connection. *)
Dropped(s) == ~ s.connected /\ s.level = 0 /\ ~ s.rollbackOnly /\ ~ s.inTx

LEMMA ResetGood ==
  ASSUME NEW s \in State
  PROVE  Good(Reset(s)) /\ Dropped(Reset(s))
<1> DEFINE u == IF Adapter = "sqlite3" \/ (Pooled /\ s.inTx) THEN NoTx(s) ELSE s
<1>1. u \in State
  BY SessionStates
<1> QED BY <1>1 DEF Reset, Good, Dropped, State

(* An outcome that is converted may leave any state. *)
LEMMA ConvertSafe ==
  ASSUME NEW os,
         \A o \in os : o \in Outcome /\ (o.err \in {"none", "fail"} => Good(o.s))
  PROVE  /\ Safe(Convert(os))
         /\ \A o \in Convert(os) : o.err = "none" => o \in os
<1>1. ASSUME NEW o \in os, o.err \in {"denied", "lost"}
      PROVE  /\ [s |-> Reset(o.s), err |-> "fail"] \in Outcome
             /\ Good(Reset(o.s))
  BY ResetGood DEF Outcome, Ends, Good
<1>2. ASSUME NEW o \in os, o.err \notin {"denied", "lost"}
      PROVE  o \in Outcome /\ Good(o.s)
  BY <1>2 DEF Outcome, Ends
<1> QED BY <1>1, <1>2 DEF Convert, Safe

LEMMA ConvertOfSafe ==
  ASSUME NEW os, Safe(os)
  PROVE  /\ Safe(Convert(os))
         /\ \A o \in Convert(os) : o.err = "none" => o \in os
BY ConvertSafe DEF Safe

LEMMA UnresolvedSafe ==
  ASSUME NEW s, Good(s)
  PROVE  /\ Safe(PlatformUnresolved(s))
         /\ \A o \in PlatformUnresolved(s) : o.err # "none"
<1> DEFINE r == [s EXCEPT !.platform = TRUE]
<1>1. Good(r)
  BY DEF Good, State
<1>2. Safe(Throws(s)) /\ Safe(Throws(r))
  BY <1>1, ThrowsSafe
<1>3. \A o \in Throws(s) \cup Throws(r) : o.err # "none"
  BY DEF Throws
<1> QED BY <1>2, <1>3 DEF PlatformUnresolved, Safe

LEMMA SavepointMethodsSafe ==
  ASSUME NEW s, Good(s)
  PROVE  /\ Safe(CreateSavepoint(s)) /\ Safe(ReleaseSavepoint(s)) /\ Safe(RollbackSavepoint(s))
         /\ \A o \in CreateSavepoint(s) : o.err = "none" => SameFields(s, o.s)
         /\ \A o \in RollbackSavepoint(s) : o.err = "none" => SameFields(s, o.s)
         /\ \A o \in ReleaseSavepoint(s) : SameFields(s, o.s) \/ Dropped(o.s)
<1>1. s \in State /\ s.level \in Nat
  BY DEF Good, State
<1>2. /\ Served(s, ExecSavepoint(s, s.level)) /\ Served(s, ExecRelease(s, s.level))
      /\ Served(s, ExecRollbackTo(s, s.level))
  BY <1>1, SavepointServes, ReleaseServes, RollbackToServes
<1>3. /\ Safe(ExecSavepoint(s, s.level)) /\ Safe(ExecRelease(s, s.level))
      /\ Safe(ExecRollbackTo(s, s.level))
  BY <1>2, ServedIsSafe
<1>4. Safe(CreateSavepoint(s)) /\ Safe(ReleaseSavepoint(s)) /\ Safe(RollbackSavepoint(s))
  BY <1>3, ConvertOfSafe, UnresolvedSafe, ThrowsSafe
  DEF CreateSavepoint, ReleaseSavepoint, RollbackSavepoint
<1>5. /\ \A o \in CreateSavepoint(s) : o.err = "none" => SameFields(s, o.s)
      /\ \A o \in RollbackSavepoint(s) : o.err = "none" => SameFields(s, o.s)
  BY <1>2, <1>3, ConvertOfSafe, UnresolvedSafe DEF CreateSavepoint, RollbackSavepoint, Served
<1>6. ASSUME NEW o \in ReleaseSavepoint(s)
      PROVE  SameFields(s, o.s) \/ Dropped(o.s)
  <2>1. ASSUME NEW p \in ExecRelease(s, s.level)
        PROVE  SameFields(s, p.s) /\ Dropped(Reset(p.s))
    BY <1>2, ResetGood DEF Served, Outcome
  <2>2. \A p \in PlatformUnresolved(s) \cup Returns(s) : SameFields(s, p.s)
    BY <1>1 DEF PlatformUnresolved, Throws, Returns, SameFields, State
  <2> QED BY <2>1, <2>2 DEF ReleaseSavepoint, Convert
<1> QED BY <1>4, <1>5, <1>6

LEMMA BeginConnectedSafe ==
  ASSUME NEW s, Good(s), s.connected
  PROVE  /\ Safe(BeginConnected(s))
         /\ \A o \in BeginConnected(s) : o.err = "none" => o.s.connected
<1> DEFINE up == [s EXCEPT !.level = @ + 1]
<1>1. up \in State /\ up.level # 0 /\ up.connected /\ Good(up)
  BY DEF Good, State
<1>2. Driven(up, DriverBegin(up))
  BY <1>1, BeginDrives
<1>3. \A o \in DriverBegin(up) : o \in Outcome /\ Good(o.s) /\ o.s.connected
  BY <1>1, <1>2 DEF Driven, SameFields, Good, Outcome
<1>4. Safe(CreateSavepoint(up))
  BY <1>1, SavepointMethodsSafe
<1>5. \A o \in CreateSavepoint(up) : o.err = "none" => o.s.connected
  BY <1>1, SavepointMethodsSafe DEF SameFields
<1>6. Safe(Convert(DriverBegin(up))) /\ Safe(Convert(CreateSavepoint(up)))
  BY <1>3, <1>4, ConvertOfSafe DEF Safe
<1>7. /\ \A o \in Convert(DriverBegin(up)) : o.err = "none" => o.s.connected
      /\ \A o \in Convert(CreateSavepoint(up)) : o.err = "none" => o.s.connected
  BY <1>3, <1>4, <1>5, ConvertOfSafe DEF Safe
<1> QED BY <1>6, <1>7 DEF BeginConnected

LEMMA ConnectSafe ==
  ASSUME NEW s, Good(s)
  PROVE  /\ Safe(Connect(s))
         /\ \A o \in Connect(s) : o.err = "none" => o.s.connected
<1>1. CASE s.connected
  BY <1>1, ThrowsSafe DEF Connect, Returns
<1>2. CASE ~ s.connected
  <2> DEFINE opened   == PerformConnect(s)
             resolved == UNION { ResolveDatabasePlatform(t) : t \in Resolved(opened) }
             begun    == UNION { BeginConnected(t) : t \in Resolved(resolved) }
             all      == Thrown(opened) \cup
                         (IF s.autoCommit THEN resolved ELSE Thrown(resolved) \cup begun)
  <2>1. Good([s EXCEPT !.connected = TRUE])
    BY DEF Good, State
  <2> DEFINE up == [s EXCEPT !.connected = TRUE]
  <2>a. Safe(Returns(up)) /\ Safe(Throws(s))
    BY <2>1, ThrowsSafe
  <2>b. up.connected
    BY DEF Good, State
  <2>c. \A o \in Returns(up) \cup Throws(s) : o.err = "none" => o.s.connected
    <3> HIDE DEF up
    <3> QED BY <2>b, ReturnsAndThrows
  <2>2. Safe(opened) /\ \A o \in opened : o.err = "none" => o.s.connected
    BY <2>a, <2>c DEF PerformConnect, Safe
  <2>3. ASSUME NEW t \in Resolved(opened)
        PROVE  Safe(ResolveDatabasePlatform(t))
               /\ \A o \in ResolveDatabasePlatform(t) : o.s.connected
    <3>1. Good(t) /\ t.connected /\ t \in State
      BY <2>2 DEF Resolved, Safe, Good
    <3> DEFINE r == [t EXCEPT !.platform = TRUE]
    <3>2. r \in State /\ SameFields(t, r) /\ r.inTx = t.inTx /\ Good(r)
      BY <3>1 DEF Good, State, SameFields
    <3>3. Served(t, Exec(t, r))
      BY <3>1, <3>2, ExecServes
    <3>4. Safe(Exec(t, r)) /\ \A o \in Exec(t, r) : o.s.connected
      BY <3>1, <3>3, ServedIsSafe DEF Served, SameFields
    <3>5. Safe(Returns(r))
      BY <3>2, ThrowsSafe
    <3>6. \A o \in Returns(r) : o.s.connected
      <4>1. r.connected
        BY <3>1 DEF State
      <4> HIDE DEF r
      <4> QED BY <4>1, ReturnsAndThrows
    <3> QED BY <3>4, <3>5, <3>6 DEF ResolveDatabasePlatform
  <2>4. Safe(resolved) /\ \A o \in resolved : o.s.connected
    BY <2>3 DEF Safe
  <2>5. ASSUME NEW t \in Resolved(resolved)
        PROVE  Safe(BeginConnected(t)) /\ \A o \in BeginConnected(t) : o.err = "none" => o.s.connected
    BY <2>4, BeginConnectedSafe DEF Resolved, Safe
  <2>6. Safe(begun) /\ \A o \in begun : o.err = "none" => o.s.connected
    BY <2>5 DEF Safe
  <2>7. Safe(all) /\ \A o \in all : o.err = "none" => o.s.connected
    BY <2>2, <2>4, <2>6 DEF Thrown, Safe
  <2>8. Safe(Convert(all)) /\ \A o \in Convert(all) : o.err = "none" => o.s.connected
    BY <2>7, ConvertOfSafe
  <2> QED BY <1>2, <2>8 DEF Connect
<1> QED BY <1>1, <1>2

LEMMA BeginTransactionSafe ==
  ASSUME NEW s, Good(s)
  PROVE  Safe(BeginTransaction(s))
<1>1. Safe(Connect(s)) /\ \A o \in Connect(s) : o.err = "none" => o.s.connected
  BY ConnectSafe
<1>2. ASSUME NEW t \in Resolved(Connect(s)) PROVE Safe(BeginConnected(t))
  BY <1>1, BeginConnectedSafe DEF Resolved, Safe
<1> QED BY <1>1, <1>2 DEF BeginTransaction, Thrown, Safe

LEMMA FinallyBeginSafe ==
  ASSUME NEW s, NEW err \in Ends, Good([s EXCEPT !.rollbackOnly = FALSE])
  PROVE  Safe(FinallyBegin(s, err))
<1>1. Safe(BeginTransaction([s EXCEPT !.rollbackOnly = FALSE]))
  BY BeginTransactionSafe
<1>2. ASSUME NEW b \in Outcome PROVE [b EXCEPT !.err = err] \in Outcome /\ [b EXCEPT !.err = err].s = b.s
  BY DEF Outcome
<1> QED BY <1>1, <1>2 DEF FinallyBegin, Safe

(* What a COMMIT or RELEASE leaves for updateTransactionStateAfterCommit(). *)
Committing(s) ==
  /\ s \in State
  /\ ~ s.rollbackOnly
  /\ ~ s.connected => s.level = 0 /\ ~ s.inTx
  /\ Releases /\ s.level < 2 => ~ s.inTx

LEMMA AfterCommitSafe ==
  ASSUME NEW s, Committing(s), NEW err \in Ends
  PROVE  Safe(AfterCommit(s, err))
<1> DEFINE down == [s EXCEPT !.level = IF @ = 0 THEN 0 ELSE @ - 1]
<1> DEFINE n == IF s.level = 0 THEN 0 ELSE s.level - 1
<1>a. s \in State /\ s.level \in Nat /\ n \in Nat
  BY DEF Committing, State
<1>b. down = [s EXCEPT !.level = n]
  BY <1>a DEF State
<1>c. /\ down \in State /\ down.level = n /\ down.connected = s.connected
      /\ down.inTx = s.inTx /\ down.rollbackOnly = s.rollbackOnly
  <2> HIDE DEF n, down
  <2> QED BY <1>a, <1>b DEF State
<1>d. ~ s.connected => n = 0
  BY <1>a DEF Committing
<1>e. n = 0 => s.level < 2
  BY <1>a
<1>f. Good(down) /\ down.rollbackOnly = FALSE
  <2> HIDE DEF n, down
  <2> QED BY <1>c, <1>d, <1>e DEF Good, Committing, State
<1>1. down \in State /\ Good(down) /\ Good([down EXCEPT !.rollbackOnly = FALSE])
  <2> HIDE DEF down
  <2>1. [down EXCEPT !.rollbackOnly = FALSE] = down
    BY <1>c, <1>f DEF State
  <2> QED BY <1>c, <1>f, <2>1
<1>2. Safe({[s |-> down, err |-> err]})
  BY <1>1 DEF Safe, Outcome
<1>3. Safe(FinallyBegin(down, err))
  BY <1>1, FinallyBeginSafe
<1> QED BY <1>2, <1>3 DEF AfterCommit

LEMMA CommitSafe ==
  ASSUME NEW s, Good(s)
  PROVE  Safe(Commit(s))
<1>1. CASE s.level = 0 \/ s.rollbackOnly
  BY <1>1, ThrowsSafe DEF Commit
<1>2. CASE ~ (s.level = 0 \/ s.rollbackOnly)
  <2> DEFINE os == IF s.level = 1 THEN DriverCommit(s) ELSE ReleaseSavepoint(s)
  <2>1. s \in State /\ s.connected /\ s.level \in Nat \ {0} /\ ~ s.rollbackOnly
    BY <1>2 DEF Good, State
  <2>2. ASSUME NEW p \in os PROVE p \in Outcome /\ Committing(p.s)
    <3>1. CASE s.level = 1
      <4>1. Driven(s, DriverCommit(s)) /\ (Releases => \A q \in DriverCommit(s) : ~ q.s.inTx)
        BY <2>1, CommitDrives
      <4> QED BY <4>1, <3>1, <2>1 DEF Driven, SameFields, Committing, Outcome
    <3>2. CASE s.level # 1
      <4>1. p \in Outcome /\ p.s \in State /\ (SameFields(s, p.s) \/ Dropped(p.s))
        BY <3>2, SavepointMethodsSafe DEF Safe, Outcome
      <4>2. CASE SameFields(s, p.s)
        <5>1. p.s.level \in Nat \ {0, 1} /\ p.s.connected /\ ~ p.s.rollbackOnly
          BY <4>2, <3>2, <2>1 DEF SameFields
        <5> QED BY <4>1, <5>1 DEF Committing
      <4>3. CASE Dropped(p.s)
        BY <4>1, <4>3 DEF Dropped, Committing, Good
      <4> QED BY <4>1, <4>2, <4>3
    <3> QED BY <3>1, <3>2
  <2>3. ASSUME NEW o \in Convert(os) PROVE o.err \in Ends /\ Committing(o.s)
    <3>1. PICK p \in os :
            o = IF p.err \in {"denied", "lost"} THEN [s |-> Reset(p.s), err |-> "fail"] ELSE p
      BY DEF Convert
    <3>2. p \in Outcome /\ p.s \in State /\ Committing(p.s)
      BY <2>2 DEF Outcome
    <3>3. Committing(Reset(p.s))
      BY <3>2, ResetGood DEF Committing, Dropped, Good
    <3> QED BY <3>1, <3>2, <3>3 DEF Outcome, Ends
  <2>4. \A o \in Convert(os) : Safe(AfterCommit(o.s, o.err))
    BY <2>3, AfterCommitSafe
  <2>5. Safe(UNION { AfterCommit(o.s, o.err) : o \in Convert(os) })
    BY <2>4 DEF Safe
  <2> QED BY <1>2, <2>5 DEF Commit
<1> QED BY <1>1, <1>2

LEMMA RollBackSafe ==
  ASSUME NEW s, Good(s)
  PROVE  Safe(RollBack(s))
<1>1. CASE s.level = 0
  BY <1>1, ThrowsSafe DEF RollBack
<1>2. CASE s.level = 1
  <2> DEFINE zero == [s EXCEPT !.level = 0]
  <2>1. zero \in State /\ zero.connected /\ zero.level = 0
    BY <1>2 DEF Good, State
  <2>2. Driven(zero, DriverRollBack(zero)) /\ (Releases => \A o \in DriverRollBack(zero) : ~ o.s.inTx)
    BY <2>1, RollBackDrives
  <2>3. ASSUME NEW o \in DriverRollBack(zero)
        PROVE  /\ o \in Outcome /\ o.err \in Ends
               /\ Good([o.s EXCEPT !.rollbackOnly = FALSE])
    BY <2>1, <2>2 DEF Driven, SameFields, Outcome, Good, State
  <2>4. ASSUME NEW o \in DriverRollBack(zero)
        PROVE  Safe({[o EXCEPT !.s.rollbackOnly = FALSE]}) /\ Safe(FinallyBegin(o.s, o.err))
    <3>1. [o EXCEPT !.s.rollbackOnly = FALSE] \in Outcome
          /\ [o EXCEPT !.s.rollbackOnly = FALSE].s = [o.s EXCEPT !.rollbackOnly = FALSE]
      BY <2>3 DEF Good, Outcome
    <3> QED BY <2>3, <3>1, FinallyBeginSafe DEF Safe
  <2>5. Safe(RollBackOutermost(s))
    BY <2>4 DEF RollBackOutermost, Safe
  <2> QED BY <1>2, <2>5, ConvertOfSafe DEF RollBack
<1>3. CASE s.level \notin {0, 1}
  <2>1. Safe(RollbackSavepoint(s))
        /\ \A o \in RollbackSavepoint(s) : o.err = "none" => SameFields(s, o.s)
    BY SavepointMethodsSafe
  <2>2. ASSUME NEW o \in RollbackSavepoint(s), o.err = "none"
        PROVE  [o EXCEPT !.s.level = @ - 1] \in Outcome /\ Good([o EXCEPT !.s.level = @ - 1].s)
    <3>1. o \in Outcome /\ Good(o.s) /\ o.s.level \in Nat \ {0, 1} /\ o.s.connected
      BY <2>1, <2>2, <1>3 DEF Safe, SameFields, Good, State
    <3>2. [o.s EXCEPT !.level = @ - 1] \in State /\ Good([o.s EXCEPT !.level = @ - 1])
      BY <3>1 DEF Good, State
    <3> QED BY <3>1, <3>2 DEF Outcome
  <2>3. Safe(RollBackNested(s))
    BY <2>1, <2>2 DEF RollBackNested, Safe
  <2> QED BY <1>3, <2>3, ConvertOfSafe DEF RollBack
<1> QED BY <1>1, <1>2, <1>3

LEMMA ExecuteStatementSafe ==
  ASSUME NEW s, Good(s), NEW w \in Writes
  PROVE  Safe(ExecuteStatement(s, w))
<1>1. Safe(Connect(s))
  BY ConnectSafe
<1>2. ASSUME NEW t \in Resolved(Connect(s)) PROVE Safe(Convert(DriverExec(t, w)))
  <2>1. Good(t) /\ t \in State
    BY <1>1 DEF Resolved, Safe, Good
  <2>2. Safe(DriverExec(t, w))
    BY <2>1, DriverExecServes, ServedIsSafe
  <2> QED BY <2>2, ConvertOfSafe
<1> QED BY <1>1, <1>2 DEF ExecuteStatement, Thrown, Safe

LEMMA CloseSafe ==
  ASSUME NEW s, Good(s)
  PROVE  Safe(Close(s))
<1>1. CASE ~ s.connected
  BY <1>1, ThrowsSafe DEF Close
<1>2. CASE s.connected
  <2>1. s \in State
    BY DEF Good
  <2>2. Driven(s, DriverClose(s)) /\ (Releases => \A o \in DriverClose(s) : o.err = "none")
    BY <2>1, CloseDrives
  <2>3. ASSUME NEW o \in Convert(DriverClose(s))
        PROVE  o \in Outcome /\ (o.err # "none" => Good(o.s))
    <3>1. PICK p \in DriverClose(s) :
            o = IF p.err \in {"denied", "lost"} THEN [s |-> Reset(p.s), err |-> "fail"] ELSE p
      BY DEF Convert
    <3>2. p \in Outcome /\ p.s \in State /\ SameFields(s, p.s) /\ (Releases => p.err = "none")
      BY <2>2 DEF Driven, Outcome
    <3>3. Good(Reset(p.s)) /\ Reset(p.s) \in State
      BY <3>2, ResetGood DEF Good
    <3>4. ~ Releases => Good(p.s)
      BY <3>2, <1>2 DEF Good, SameFields
    <3> QED BY <3>1, <3>2, <3>3, <3>4 DEF Outcome, Ends
  <2>4. ASSUME NEW o \in Convert(DriverClose(s))
        PROVE  [o EXCEPT !.s = Reset(@)] \in Outcome /\ Good([o EXCEPT !.s = Reset(@)].s)
    <3>1. o \in Outcome /\ o.s \in State
      BY <2>3 DEF Outcome
    <3>2. Good(Reset(o.s)) /\ Reset(o.s) \in State
      BY <3>1, ResetGood DEF Good
    <3> QED BY <3>1, <3>2 DEF Outcome
  <2> QED BY <1>2, <2>3, <2>4 DEF Close, Safe
<1> QED BY <1>1, <1>2

-----------------------------------------------------------------------------
(* The specification.  Good is preserved by every method; what is left is  *)
(* the type of the history variables.                                      *)

IInv == TypeOK /\ Good(c)

(* Adding writes to the innermost scope gives a sequence of scopes. *)
LEMMA NotedType ==
  ASSUME NEW ss \in Seq(Scope), NEW ws \in SUBSET Writes
  PROVE  Noted(ss, ws) \in Seq(Scope)
<1>1. CASE ss = <<>>
  BY <1>1 DEF Noted
<1>2. CASE ss # <<>>
  <2>1. Len(ss) \in 1 .. Len(ss) /\ ss[Len(ss)] \in Scope
    BY <1>2
  <2>2. [ss[Len(ss)] EXCEPT !.writes = @ \cup ws] \in Scope
    BY <2>1 DEF Scope
  <2>3. [ss EXCEPT ![Len(ss)].writes = @ \cup ws] \in Seq(Scope)
    BY <2>1, <2>2
  <2> QED BY <1>2, <2>3 DEF Noted
<1> QED BY <1>1, <1>2

(* Leaving the innermost scope gives a sequence of scopes. *)
LEMMA LeftType ==
  ASSUME scopes \in Seq(Scope)
  PROVE  Left \in Seq(Scope) /\ (scopes # <<>> => Top.writes \in SUBSET Writes)
<1>1. CASE scopes = <<>>
  BY <1>1 DEF Left
<1>2. CASE scopes # <<>>
  <2>1. SubSeq(scopes, 1, Len(scopes) - 1) \in Seq(Scope) /\ Top \in Scope
    BY <1>2 DEF Top
  <2>2. Top.writes \in SUBSET Writes
    BY <2>1 DEF Scope
  <2> QED BY <1>2, <2>1, <2>2, NotedType DEF Left
<1> QED BY <1>1, <1>2

(* Beginning a scope gives a sequence of scopes. *)
LEMMA EnteredType ==
  ASSUME NEW ss \in Seq(Scope), NEW k \in {"manual", "transactional"}
  PROVE  Append(ss, [kind |-> k, writes |-> {}]) \in Seq(Scope)
<1>1. [kind |-> k, writes |-> {}] \in Scope
  BY DEF Scope
<1> QED BY <1>1

(* A Connection starts without a driver connection, at level 0. *)
LEMMA InitGood == Init => IInv
<1> SUFFICES ASSUME Init PROVE IInv
  OBVIOUS
<1>1. PICK a \in AutoCommit :
        c = [ autoCommit |-> a, connected |-> FALSE, platform |-> FALSE, level |-> 0,
              rollbackOnly |-> FALSE, inTx |-> FALSE, alive |-> TRUE, aborted |-> FALSE,
              tx |-> <<>>, durable |-> {} ]
  BY DEF Init
<1>2. a \in BOOLEAN /\ <<>> \in Seq(Frame)
  BY ConnectionAssumption
<1>3. c \in State
  BY <1>1, <1>2 DEF State
<1>4. Good(c)
  BY <1>1, <1>3 DEF Good
<1>5. TypeOK
  BY <1>3 DEF TypeOK, Init
<1> QED BY <1>4, <1>5 DEF IInv

(* Rolling back a transactional() that throws keeps a state Good. *)
LEMMA RollBackIfActiveSafe ==
  ASSUME NEW s, Good(s)
  PROVE  Safe(RollBackIfActive(s))
BY RollBackSafe, ThrowsSafe DEF RollBackIfActive

(* Every step keeps the invariant: one step of the proof per action. *)
LEMMA NextGood == IInv /\ [Next]_vars => IInv'
<1> SUFFICES ASSUME IInv, [Next]_vars PROVE IInv'
  OBVIOUS
<1> USE DEF IInv
<1>1. /\ Good(c) /\ c \in State /\ c.level \in Nat
      /\ scopes \in Seq(Scope) /\ Left \in Seq(Scope)
      /\ Pending(c.tx) \in SUBSET Writes
  <2>1. c \in State /\ c.level \in Nat /\ c.tx \in Seq(Frame) /\ scopes \in Seq(Scope)
    BY DEF TypeOK, State
  <2> QED BY <2>1, LeftType, PendingType
<1>2. ASSUME NEW os, Safe(os), NEW o \in os PROVE Good(o.s) /\ o.s \in State
  BY <1>2 DEF Safe, Good
<1>3. CASE CallConnect
  <2>1. Good(c') /\ c' \in State
    BY <1>1, <1>2, <1>3, ConnectSafe DEF CallConnect
  <2> QED BY <1>3, <2>1 DEF CallConnect, TypeOK, Good
<1>4. ASSUME NEW w \in Writes, CallExecuteStatement(w) PROVE IInv'
  <2>1. Good(c') /\ c' \in State
    BY <1>1, <1>2, <1>4, ExecuteStatementSafe DEF CallExecuteStatement
  <2>2. Noted(scopes, {w}) \in Seq(Scope)
    BY <1>1, NotedType
  <2>3. /\ unused' \subseteq Writes /\ scopes' \in Seq(Scope) /\ doomed' \subseteq Writes
        /\ calling' = calling /\ rejected' = rejected
    BY <1>1, <1>4, <2>2 DEF CallExecuteStatement, TypeOK
  <2> QED BY <2>1, <2>3 DEF TypeOK, Good
<1>5. ASSUME NEW k \in {"manual", "transactional"}, CallBeginTransaction(k) PROVE IInv'
  <2>1. Good(c') /\ c' \in State
    BY <1>1, <1>2, <1>5, BeginTransactionSafe DEF CallBeginTransaction
  <2>2. scopes' \in Seq(Scope)
    BY <1>1, <1>5, EnteredType DEF CallBeginTransaction
  <2> QED BY <1>5, <2>1, <2>2 DEF CallBeginTransaction, TypeOK, Good
<1>6. CASE CallCommit
  <2>1. Good(c') /\ c' \in State
    BY <1>1, <1>2, <1>6, CommitSafe DEF CallCommit
  <2>2. scopes' \in Seq(Scope)
    BY <1>1, <1>6 DEF CallCommit
  <2> QED BY <1>6, <2>1, <2>2 DEF CallCommit, TypeOK, Good
<1>7. CASE CallRollBack
  <2>1. Good(c') /\ c' \in State
    BY <1>1, <1>2, <1>7, RollBackSafe DEF CallRollBack
  <2>2. scopes' \in Seq(Scope)
    BY <1>1, <1>7 DEF CallRollBack
  <2> QED BY <1>7, <2>1, <2>2 DEF CallRollBack, TypeOK, Good
<1>8. CASE CallSetRollbackOnly
  <2>1. c' = [c EXCEPT !.rollbackOnly = TRUE] /\ c.level # 0
    BY <1>8 DEF CallSetRollbackOnly
  <2>2. Good(c') /\ c' \in State
    BY <1>1, <2>1 DEF Good, State
  <2> QED BY <1>1, <1>8, <2>2 DEF CallSetRollbackOnly, TypeOK, Good
<1>9. CASE TransactionalReturns
  <2>1. Safe(Commit(c))
    BY <1>1, CommitSafe
  <2>2. ASSUME NEW o \in Commit(c) PROVE Safe(RollBackIfActive(o.s))
    BY <1>2, <2>1, RollBackIfActiveSafe
  <2>3. Good(c') /\ c' \in State
    BY <1>2, <1>9, <2>1, <2>2 DEF TransactionalReturns
  <2>4. Top.writes \in SUBSET Writes
    BY <1>1, <1>9, LeftType DEF TransactionalReturns, Inside
  <2>5. rejected' \subseteq Writes
    BY <1>9, <2>4 DEF TransactionalReturns, TypeOK
  <2> QED BY <1>1, <1>9, <2>3, <2>5 DEF TransactionalReturns, TypeOK, Good
<1>10. CASE TransactionalThrows
  <2>1. Good(c') /\ c' \in State
    BY <1>1, <1>2, <1>10, RollBackIfActiveSafe DEF TransactionalThrows
  <2>2. Top.writes \in SUBSET Writes
    BY <1>1, <1>10, LeftType DEF TransactionalThrows, Inside
  <2>3. rejected' \subseteq Writes
    BY <1>10, <2>2 DEF TransactionalThrows, TypeOK
  <2> QED BY <1>1, <1>10, <2>1, <2>3 DEF TransactionalThrows, TypeOK, Good
<1>11. CASE CallSetAutoCommit
  <2>1. c' = [c EXCEPT !.autoCommit = ~ @]
    BY <1>11 DEF CallSetAutoCommit
  <2>2. Good(c') /\ c' \in State
    BY <1>1, <2>1 DEF Good, State
  <2>3. scopes' \in Seq(Scope) /\ calling' \in {"none", "commitAll"}
    BY <1>11 DEF CallSetAutoCommit
  <2> QED BY <1>11, <2>2, <2>3 DEF CallSetAutoCommit, TypeOK, Good
<1>12. CASE CommitAll
  <2>1. Good(c') /\ c' \in State
    BY <1>1, <1>2, <1>12, CommitSafe DEF CommitAll
  <2>2. calling' \in {"none", "commitAll"}
    BY <1>12 DEF CommitAll
  <2> QED BY <1>12, <2>1, <2>2 DEF CommitAll, TypeOK, Good
<1>13. CASE CallClose
  <2>1. Good(c') /\ c' \in State
    BY <1>1, <1>2, <1>13, CloseSafe DEF CallClose
  <2>2. scopes' \in Seq(Scope)
    BY <1>13 DEF CallClose
  <2> QED BY <1>13, <2>1, <2>2 DEF CallClose, TypeOK, Good
<1>14. CASE UNCHANGED vars
  BY <1>14 DEF vars, TypeOK, Good
<1> QED
  BY <1>3, <1>4, <1>5, <1>6, <1>7, <1>8, <1>9, <1>10, <1>11, <1>12, <1>13, <1>14 DEF Next

(* The invariant holds of every reachable state. *)
LEMMA Invariance == Spec => []IInv
BY InitGood, NextGood, PTL DEF Spec

(* The fields of a Connection, its adapter and its session keep their      *)
(* types whatever calls are made and whatever fails: in particular the     *)
(* nesting level never becomes negative.                                   *)
THEOREM TypeCorrect == Spec => []TypeOK
<1>1. IInv => TypeOK
  BY DEF IInv
<1> QED BY <1>1, Invariance, PTL

(* Whatever fails, a Connection that dropped its driver connection has no  *)
(* level and no adapter transaction left, and a rollback-only mark is only *)
(* ever there inside a transaction: no later transaction inherits it.      *)
THEOREM AlwaysCleanOutside == Spec => []CleanOutside
<1>1. IInv => CleanOutside
  BY DEF IInv, Good, CleanOutside
<1> QED BY <1>1, Invariance, PTL

(* With pg and mysql2, the adapter of a Connection at level 0 never refuses *)
(* a beginTransaction() because it still believes in a transaction,        *)
(* whatever its commit(), rollBack(), close() or begin ran into.           *)
THEOREM AlwaysReadyToBegin == Releases => (Spec => []ReadyToBegin)
<1> SUFFICES ASSUME Releases PROVE Spec => []ReadyToBegin
  OBVIOUS
<1>1. IInv => ReadyToBegin
  BY DEF IInv, Good, ReadyToBegin
<1> QED BY <1>1, Invariance, PTL
-----------------------------------------------------------------------------
(***************************************************************************)
(* What becomes of the writes of a Connection's transactions, wherever the *)
(* code can keep the promise: a write is pending or durable, and each      *)
(* method moves writes only as far as the rollback-only mark lets it.      *)
(***************************************************************************)
(* Where a Connection that lets go of its adapter leaves no transaction    *)
(* behind: pg and mssql, when a COMMIT or ROLLBACK that fails ends the     *)
(* transaction, and when what is converted to a lost connection either     *)
(* ends the session or takes place on a session borrowed from a pool.      *)
NoneLeftBehind ==
  /\ Adapter \in {"pg", "mssql"}
  /\ "open" \notin EndFailure
  /\ Pooled \/ "denied" \notin Faults

(* What holds of every state a method starts from.                         *)
Sound(s) ==
  /\ s \in State
  /\ s.tx # <<>> => s.inTx
  /\ s.tx # <<>> => s.level # 0
  /\ ~ s.alive => s.tx = <<>>
  /\ Pending(s.tx) \cap s.durable = {}

(* The session may move pending writes to the durable ones, or undo them.  *)
MovesWrites(s, t) ==
  /\ t \in State
  /\ t.tx # <<>> => s.tx # <<>>
  /\ ~ t.alive => t.tx = <<>>
  /\ ~ Pooled /\ ~ s.alive => ~ t.alive
  /\ Pending(t.tx) \subseteq Pending(s.tx)
  /\ t.durable \subseteq s.durable \cup Pending(s.tx)
  /\ Pending(t.tx) \cap t.durable = {}

Undoes(s, t) == MovesWrites(s, t) /\ t.durable = s.durable

(* What a call that executes no statement of the caller does to a state:   *)
(* a marked transaction makes nothing durable, and leaves nothing pending  *)
(* where its mark is gone.                                                 *)
Keeps(s, t) ==
  /\ Sound(t)
  /\ ~ Pooled /\ ~ s.alive => ~ t.alive
  /\ Pending(t.tx) \subseteq Pending(s.tx)
  /\ t.durable \subseteq s.durable \cup Pending(s.tx)
  /\ s.rollbackOnly => t.durable \subseteq s.durable
  /\ s.rollbackOnly /\ ~ t.rollbackOnly => Pending(t.tx) = {}

(* Outcomes that keep s.  A session that is not borrowed from a pool is    *)
(* dead when an error that is converted to a lost connection reports it.   *)
Converts(o) == (o.err \in {"denied", "lost"} /\ ~ Pooled) => ~ o.s.alive
Keeping(s, os) == \A o \in os : o \in Outcome /\ Keeps(s, o.s) /\ Converts(o)

-----------------------------------------------------------------------------
(* Pending writes of the stacks the session builds. *)

LEMMA PendingEmpty == Pending(<<>>) = {}
BY DEF Pending

(* A new savepoint holds no writes. *)
LEMMA PendingAppend ==
  ASSUME NEW tx \in Seq(Frame), NEW f \in Frame
  PROVE  Append(tx, f) \in Seq(Frame) /\ Pending(Append(tx, f)) = Pending(tx) \cup f.writes
<1> DEFINE u == Append(tx, f)
<1>1. u \in Seq(Frame) /\ Len(u) = Len(tx) + 1 /\ u[Len(tx) + 1] = f
      /\ \A i \in 1 .. Len(tx) : u[i] = tx[i]
  OBVIOUS
<1>2. DOMAIN u = 1 .. Len(tx) + 1 /\ DOMAIN tx = 1 .. Len(tx) /\ Len(tx) \in Nat
  BY <1>1
<1>3. ASSUME NEW w \in Pending(u) PROVE w \in Pending(tx) \cup f.writes
  <2>1. PICK i \in DOMAIN u : w \in u[i].writes
    BY DEF Pending
  <2>2. i \in DOMAIN tx \/ i = Len(tx) + 1
    BY <1>2
  <2> QED BY <1>1, <1>2, <2>1, <2>2 DEF Pending
<1>4. ASSUME NEW w \in Pending(tx) \cup f.writes PROVE w \in Pending(u)
  <2>1. CASE w \in f.writes
    BY <1>1, <1>2, <2>1 DEF Pending
  <2>2. CASE w \in Pending(tx)
    <3>1. PICK i \in DOMAIN tx : w \in tx[i].writes
      BY <2>2 DEF Pending
    <3>2. i \in DOMAIN u /\ u[i] = tx[i]
      BY <1>1, <1>2
    <3> QED BY <3>1, <3>2 DEF Pending
  <2> QED BY <1>4, <2>1, <2>2
<1> QED BY <1>1, <1>3, <1>4

(* The first or the last frames of a stack hold no other writes. *)
LEMMA PendingSub ==
  ASSUME NEW tx \in Seq(Frame), NEW m \in 1 .. Len(tx) + 1, NEW n \in 0 .. Len(tx)
  PROVE  SubSeq(tx, m, n) \in Seq(Frame) /\ Pending(SubSeq(tx, m, n)) \subseteq Pending(tx)
<1> DEFINE u == SubSeq(tx, m, n)
<1>1. u \in Seq(Frame)
  OBVIOUS
<1>2. \A i \in DOMAIN u : i + m - 1 \in DOMAIN tx /\ u[i] = tx[i + m - 1]
  OBVIOUS
<1>3. ASSUME NEW w \in Pending(u) PROVE w \in Pending(tx)
  <2>1. PICK i \in DOMAIN u : w \in u[i].writes
    BY DEF Pending
  <2> QED BY <1>2, <2>1 DEF Pending
<1> QED BY <1>1, <1>3

(* A statement's write joins the pending ones of the open transaction. *)
LEMMA PendingWritten ==
  ASSUME NEW s \in State, NEW w \in Writes, s.tx # <<>>
  PROVE  /\ Written(s, w).tx # <<>>
         /\ Pending(Written(s, w).tx) = Pending(s.tx) \cup {w}
         /\ Written(s, w).durable = s.durable
<1> DEFINE n == Len(s.tx)
           f == [s.tx[n] EXCEPT !.writes = @ \cup {w}]
           u == [s.tx EXCEPT ![n] = f]
<1>1. n \in 1 .. n /\ s.tx \in Seq(Frame) /\ DOMAIN s.tx = 1 .. n /\ s.tx[n] \in Frame
  BY DEF State
<1>2. f \in Frame /\ f.writes = s.tx[n].writes \cup {w}
  BY <1>1 DEF Frame
<1>3. u \in Seq(Frame) /\ DOMAIN u = 1 .. n /\ u[n] = f /\ \A i \in 1 .. n \ {n} : u[i] = s.tx[i]
  BY <1>1, <1>2
<1>4. Written(s, w) = [s EXCEPT !.tx = u]
  BY DEF Written
<1>5. Written(s, w).tx = u /\ Written(s, w).durable = s.durable
  <2> HIDE DEF u
  <2> QED BY <1>4 DEF State
<1>6. u # <<>>
  BY <1>1, <1>3
<1>7. ASSUME NEW v \in Pending(u) PROVE v \in Pending(s.tx) \cup {w}
  <2>1. PICK i \in 1 .. n : v \in u[i].writes
    BY <1>3 DEF Pending
  <2> QED BY <1>1, <1>2, <1>3, <2>1 DEF Pending
<1>8. ASSUME NEW v \in Pending(s.tx) \cup {w} PROVE v \in Pending(u)
  <2>1. CASE v = w
    BY <1>1, <1>2, <1>3, <2>1 DEF Pending
  <2>2. CASE v \in Pending(s.tx)
    <3>1. PICK i \in 1 .. n : v \in s.tx[i].writes
      BY <1>1, <2>2 DEF Pending
    <3>2. v \in u[i].writes
      BY <1>1, <1>2, <1>3, <3>1
    <3> QED BY <1>3, <3>2 DEF Pending
  <2> QED BY <1>8, <2>1, <2>2
<1> QED BY <1>5, <1>6, <1>7, <1>8

-----------------------------------------------------------------------------
(* What the session does to the writes. *)

LEMMA SessionUndoes ==
  ASSUME NEW s \in State, ~ s.alive => s.tx = <<>>, Pending(s.tx) \cap s.durable = {}
  PROVE  /\ Undoes(s, s) /\ Undoes(s, Abort(s))
         /\ Undoes(s, NoTx(s)) /\ NoTx(s).tx = <<>>
         /\ Undoes(s, Lose(s)) /\ Lose(s).tx = <<>> /\ Lose(s).alive = Pooled
<1>1. Undoes(s, s)
  BY DEF Undoes, MovesWrites
<1>2. Abort(s).tx = s.tx /\ Abort(s).durable = s.durable /\ Abort(s).alive = s.alive
  BY DEF Abort, State
<1>3. /\ NoTx(s).tx = <<>> /\ NoTx(s).durable = s.durable
      /\ Lose(s).tx = <<>> /\ Lose(s).durable = s.durable
      /\ NoTx(s).alive = s.alive /\ Lose(s).alive = Pooled
  BY DEF NoTx, Lose, State
<1>4. Undoes(s, Abort(s))
  BY <1>2, SessionStates DEF Undoes, MovesWrites
<1>5. Undoes(s, NoTx(s)) /\ Undoes(s, Lose(s))
  BY <1>3, PendingEmpty, SessionStates DEF Undoes, MovesWrites
<1> QED BY <1>1, <1>3, <1>4, <1>5

(* A statement does what it does when it succeeds, or only undoes. *)
LEMMA ExecMoves ==
  ASSUME NEW s \in State, ~ s.alive => s.tx = <<>>, Pending(s.tx) \cap s.durable = {},
         NEW t \in State,
         NEW o \in Exec(s, t)
  PROVE  /\ o = [s |-> t, err |-> "none"] \/ Undoes(s, o.s)
         /\ o.err = "none" => o = [s |-> t, err |-> "none"]
         /\ Converts(o)
<1>1. CASE ~ s.alive
  BY <1>1, SessionUndoes DEF Exec, Converts
<1>2. CASE s.alive /\ (s.aborted \/ Stale(s))
  BY <1>2, SessionUndoes DEF Exec, Throws, Converts
<1>3. CASE s.alive /\ ~ (s.aborted \/ Stale(s))
  BY <1>3, SessionUndoes DEF Exec, Returns, Failures, Losses, Converts
<1> QED BY <1>1, <1>2, <1>3

LEMMA RejectMoves ==
  ASSUME NEW s \in State, ~ s.alive => s.tx = <<>>, Pending(s.tx) \cap s.durable = {},
         NEW o \in Reject(s)
  PROVE  Undoes(s, o.s) /\ Converts(o) /\ o.err # "none"
BY SessionUndoes DEF Reject, Throws, Converts

(* A savepoint, and a rollback to one, make nothing durable. *)
LEMMA SavepointUndoes ==
  ASSUME NoneLeftBehind,
         NEW s \in State, ~ s.alive => s.tx = <<>>, Pending(s.tx) \cap s.durable = {},
         NEW n \in Nat
  PROVE  \A o \in ExecSavepoint(s, n) \cup ExecRollbackTo(s, n) :
           Undoes(s, o.s) /\ Converts(o)
<1>1. Mark(n) \in Frame /\ Mark(n).writes = {}
  BY MarkType DEF Mark
<1>2. s.tx \in Seq(Frame)
  BY DEF State
<1>3. ASSUME NEW o \in ExecSavepoint(s, n)
      PROVE  Undoes(s, o.s) /\ Converts(o)
  <2>1. CASE s.tx # <<>>
    <3> DEFINE u == Append(s.tx, Mark(n))
               t == [s EXCEPT !.tx = u]
    <3>1. u \in Seq(Frame) /\ Pending(u) = Pending(s.tx)
      BY <1>1, <1>2, PendingAppend
    <3>2. t \in State /\ t.tx = u /\ t.durable = s.durable /\ t.alive = s.alive
      <4> HIDE DEF u
      <4> QED BY <3>1 DEF State
    <3>3. Undoes(s, t)
      BY <2>1, <3>1, <3>2 DEF Undoes, MovesWrites
    <3>4. o \in Exec(s, t)
      BY <2>1 DEF ExecSavepoint
    <3> QED BY <3>2, <3>3, <3>4, ExecMoves
  <2>2. CASE s.tx = <<>>
    <3>1. o \in Reject(s)
      BY <2>2 DEF ExecSavepoint, NoneLeftBehind
    <3> QED BY <3>1, RejectMoves
  <2> QED BY <2>1, <2>2
<1>4. ASSUME NEW o \in ExecRollbackTo(s, n)
      PROVE  Undoes(s, o.s) /\ Converts(o)
  <2>1. ASSUME NEW i \in Last(s.tx, n), o = [s |-> RolledBackTo(s, i, n), err |-> "none"]
        PROVE  Undoes(s, o.s)
    <3> DEFINE b == SubSeq(s.tx, 1, i - 1)
               u == Append(b, Mark(n))
    <3>1. i \in 1 .. Len(s.tx) /\ 1 \in 1 .. Len(s.tx) + 1 /\ i - 1 \in 0 .. Len(s.tx)
      BY <1>2 DEF Last
    <3>2. b \in Seq(Frame) /\ Pending(b) \subseteq Pending(s.tx)
      BY <1>2, <3>1, PendingSub
    <3>3. u \in Seq(Frame) /\ Pending(u) \subseteq Pending(s.tx)
      <4> HIDE DEF b
      <4> QED BY <1>1, <3>2, PendingAppend
    <3>4. /\ RolledBackTo(s, i, n).tx = u /\ RolledBackTo(s, i, n).durable = s.durable
          /\ RolledBackTo(s, i, n).alive = s.alive /\ RolledBackTo(s, i, n) \in State
      <4>1. RolledBackTo(s, i, n) = [s EXCEPT !.tx = u, !.aborted = FALSE]
        BY DEF RolledBackTo
      <4> HIDE DEF u
      <4> QED BY <3>3, <4>1 DEF State
    <3>5. s.tx # <<>>
      BY <1>2, <3>1
    <3>6. s.alive
      BY <3>5
    <3>7. o.s = RolledBackTo(s, i, n)
      BY <2>1
    <3> QED BY <3>3, <3>4, <3>5, <3>6, <3>7 DEF Undoes, MovesWrites
  <2>2. ASSUME o \in Losses(s) PROVE Undoes(s, o.s) /\ Converts(o)
    BY <2>2, SessionUndoes DEF Losses, Converts
  <2> QED BY <2>1, <2>2, RejectMoves DEF ExecRollbackTo, Converts
<1> QED BY <1>3, <1>4

(* Releasing a savepoint keeps the writes of its level. *)
LEMMA ReleaseMoves ==
  ASSUME NEW s \in State, ~ s.alive => s.tx = <<>>, Pending(s.tx) \cap s.durable = {},
         NEW n \in Nat
  PROVE  \A o \in ExecRelease(s, n) :
           MovesWrites(s, o.s) /\ Converts(o)
<1>1. s.tx \in Seq(Frame) /\ Pending(s.tx) \in SUBSET Writes
  BY PendingType DEF State
<1>2. ASSUME NEW i \in Last(s.tx, n) PROVE Released(s, i) \in State /\ MovesWrites(s, Released(s, i))
  <2>1. i \in 1 .. Len(s.tx) /\ s.tx # <<>>
    BY <1>1 DEF Last
  <2>2. s.alive
    BY <2>1
  <2>3. CASE i = 1
    <3>1. NoTx(s) \in State /\ NoTx(s).tx = <<>> /\ NoTx(s).durable = s.durable
      BY SessionStates, SessionUndoes DEF Undoes
    <3>2. s.durable \cup Pending(s.tx) \in SUBSET Writes
      BY <1>1 DEF State
    <3>3. Released(s, i) = [NoTx(s) EXCEPT !.durable = s.durable \cup Pending(s.tx)]
      BY <2>3, <3>1 DEF Released
    <3>4. /\ Released(s, i) \in State /\ Released(s, i).tx = <<>>
          /\ Released(s, i).durable = s.durable \cup Pending(s.tx)
      BY <3>1, <3>2, <3>3 DEF State
    <3> QED BY <2>2, <3>4, PendingEmpty DEF MovesWrites
  <2>4. CASE i # 1
    <3> DEFINE top == SubSeq(s.tx, i, Len(s.tx))
               low == SubSeq(s.tx, 1, i - 2)
               f   == [sp |-> s.tx[i - 1].sp, writes |-> s.tx[i - 1].writes \cup Pending(top)]
               u   == Append(low, f)
    <3>1. /\ i - 1 \in 1 .. Len(s.tx) /\ s.tx[i - 1] \in Frame
          /\ i \in 1 .. Len(s.tx) + 1 /\ Len(s.tx) \in 0 .. Len(s.tx)
          /\ 1 \in 1 .. Len(s.tx) + 1 /\ i - 2 \in 0 .. Len(s.tx)
      BY <1>1, <2>1, <2>4
    <3>2. top \in Seq(Frame) /\ Pending(top) \subseteq Pending(s.tx)
      BY <1>1, <3>1, PendingSub
    <3>3. low \in Seq(Frame) /\ Pending(low) \subseteq Pending(s.tx)
      BY <1>1, <3>1, PendingSub
    <3>4. s.tx[i - 1].writes \subseteq Pending(s.tx)
      BY <1>1, <3>1 DEF Pending
    <3>5. f \in Frame /\ f.writes \subseteq Pending(s.tx)
      <4> HIDE DEF top
      <4> QED BY <1>1, <3>1, <3>2, <3>4 DEF Frame
    <3>6. u \in Seq(Frame) /\ Pending(u) \subseteq Pending(s.tx)
      <4> HIDE DEF low, f
      <4> QED BY <3>3, <3>5, PendingAppend
    <3>7. Released(s, i) = [s EXCEPT !.tx = u]
      BY <2>4 DEF Released
    <3>8. /\ Released(s, i) \in State /\ Released(s, i).tx = u
          /\ Released(s, i).durable = s.durable /\ Released(s, i).alive = s.alive
      <4> HIDE DEF u
      <4> QED BY <3>6, <3>7 DEF State
    <3> QED BY <2>1, <2>2, <3>6, <3>8 DEF MovesWrites
  <2> QED BY <2>3, <2>4
<1>3. ASSUME NEW o \in ExecRelease(s, n)
      PROVE  MovesWrites(s, o.s) /\ Converts(o)
  <2>1. CASE o \in Reject(s)
    BY <2>1, RejectMoves DEF Undoes
  <2>2. ASSUME NEW i \in Last(s.tx, n), o \in Exec(s, Released(s, i))
        PROVE  MovesWrites(s, o.s) /\ Converts(o)
    BY <1>2, <2>2, ExecMoves DEF Undoes
  <2> QED BY <2>1, <2>2 DEF ExecRelease
<1> QED BY <1>3

-----------------------------------------------------------------------------
(* The adapters' transaction calls. *)

(* A Connection can only let go of a transaction that is gone. *)
LEMMA BeginUndoes ==
  ASSUME NoneLeftBehind,
         NEW s \in State, s.tx # <<>> => s.inTx, ~ s.alive => s.tx = <<>>,
         Pending(s.tx) \cap s.durable = {},
         NEW o \in DriverBegin(s)
  PROVE  /\ Pending(o.s.tx) \subseteq Pending(s.tx) /\ o.s.durable = s.durable
         /\ ~ o.s.alive => o.s.tx = <<>>
         /\ ~ Pooled /\ ~ s.alive => ~ o.s.alive
         /\ o.s.tx # <<>> => o.s.inTx
         /\ Converts(o)
<1>1. CASE s.inTx
  <2>1. o.s = s /\ o.err = "fail"
    BY <1>1 DEF DriverBegin, PgBegin, MSSQLBegin, NoneLeftBehind, Throws
  <2> QED BY <2>1 DEF Converts
<1>2. CASE ~ s.inTx
  <2>1. s.tx = <<>>
    BY <1>2
  <2>2. o \in Exec(s, Begun(s))
    BY <1>2, <2>1 DEF DriverBegin, PgBegin, MSSQLBegin, NoneLeftBehind
  <2>3. /\ Begun(s) \in State /\ Begun(s).tx = <<Mark(1)>> /\ Begun(s).inTx
        /\ Begun(s).durable = s.durable /\ Begun(s).alive = s.alive
    BY BegunState DEF Begun, State
  <2>4. Pending(<<Mark(1)>>) = {}
    <3>1. DOMAIN <<Mark(1)>> = {1} /\ <<Mark(1)>>[1].writes = {}
      BY DEF Mark
    <3> QED BY <3>1 DEF Pending
  <2>5. CASE Undoes(s, o.s)
    <3>1. o.s.tx = <<>> /\ o.s.durable = s.durable /\ (~ Pooled /\ ~ s.alive => ~ o.s.alive)
      BY <2>1, <2>5 DEF Undoes, MovesWrites
    <3> QED BY <2>2, <2>3, <3>1, PendingEmpty, ExecMoves
  <2>6. CASE o = [s |-> Begun(s), err |-> "none"]
    <3>1. s.alive
      BY <2>2, <2>6 DEF Exec
    <3>2. o.s = Begun(s) /\ o.err = "none"
      BY <2>6
    <3> QED BY <2>3, <2>4, <3>1, <3>2 DEF Converts
  <2> QED BY <2>2, <2>3, <2>5, <2>6, ExecMoves
<1> QED BY <1>1, <1>2

(* COMMIT, ROLLBACK and close() end the transaction whatever they answer.  *)
Ended(s, o, d) ==
  /\ o.s.tx = <<>>
  /\ o.s.durable \in d
  /\ ~ s.alive => ~ o.s.alive
  /\ Converts(o)

LEMMA ExecEndEnds ==
  ASSUME NoneLeftBehind,
         NEW s \in State, ~ s.alive => s.tx = <<>>,
         NEW done \in State, done.tx = <<>>,
         NEW o \in ExecEnd(s, done)
  PROVE  Ended(s, o, {s.durable, done.durable})
<1>1. /\ Lose(s).tx = <<>> /\ Lose(s).durable = s.durable /\ Lose(s).alive = Pooled
      /\ Lose(done).tx = <<>> /\ Lose(done).durable = done.durable /\ Lose(done).alive = Pooled
      /\ NoTx(s).tx = <<>> /\ NoTx(s).durable = s.durable
  BY DEF Lose, NoTx, State
<1>2. CASE ~ s.alive
  BY <1>2 DEF ExecEnd, Converts, Ended
<1>3. CASE s.alive
  <2>1. ASSUME o \in Throws(s), s.tx = <<>> PROVE Ended(s, o, {s.durable, done.durable})
    BY <2>1, <1>3 DEF Throws, Converts, Ended
  <2>2. ASSUME o \in Returns(done) \cup EndFailures(s, done)
        PROVE  Ended(s, o, {s.durable, done.durable})
    BY <1>1, <1>3, <2>2 DEF Returns, EndFailures, NoneLeftBehind, Converts, Ended
  <2> QED BY <1>3, <2>1, <2>2 DEF ExecEnd
<1> QED BY <1>2, <1>3

(* So they do when the adapter forgets its transaction afterwards. *)
LEMMA ForgottenEnds ==
  ASSUME NEW s, NEW d, NEW o \in Outcome, Ended(s, o, d), NEW f \in BOOLEAN, NEW e \in {o.err, "none"}
  PROVE  /\ Ended(s, [o EXCEPT !.s.inTx = f], d)
         /\ Ended(s, [s |-> [o.s EXCEPT !.inTx = f], err |-> e], d)
<1>1. o.s \in State /\ o.err \in Ends
  BY DEF Outcome
<1> DEFINE t == [o.s EXCEPT !.inTx = f]
<1>2. t.tx = o.s.tx /\ t.durable = o.s.durable /\ t.alive = o.s.alive
  BY <1>1 DEF State
<1>3. [o EXCEPT !.s.inTx = f] = [s |-> t, err |-> o.err]
  BY DEF Outcome
<1> HIDE DEF t
<1> QED BY <1>2, <1>3 DEF Ended, Converts

LEMMA EndsTransaction ==
  ASSUME NoneLeftBehind,
         NEW s \in State, s.tx # <<>> => s.inTx, ~ s.alive => s.tx = <<>>
  PROVE  /\ \A o \in DriverCommit(s) : Ended(s, o, {s.durable, s.durable \cup Pending(s.tx)})
         /\ \A o \in DriverRollBack(s) \cup DriverClose(s) : Ended(s, o, {s.durable})
<1>1. Pending(s.tx) \in SUBSET Writes
  BY PendingType DEF State
<1>2. /\ NoTx(s) \in State /\ NoTx(s).tx = <<>> /\ NoTx(s).durable = s.durable
      /\ SameFields(s, NoTx(s))
  BY SessionStates DEF NoTx, State
<1> DEFINE both == {s.durable, s.durable \cup Pending(s.tx)}
<1>3. /\ Committed(s) \in State /\ Committed(s).tx = <<>> /\ SameFields(s, Committed(s))
      /\ Committed(s).durable \in both
  <2> DEFINE d == IF s.aborted THEN s.durable ELSE s.durable \cup Pending(s.tx)
  <2>1. d \in SUBSET Writes /\ d \in both
    BY <1>1 DEF State
  <2>2. Committed(s) = [NoTx(s) EXCEPT !.durable = d]
    BY <1>2 DEF Committed
  <2> HIDE DEF d
  <2> QED BY <1>2, <2>1, <2>2 DEF State, SameFields
<1>4. \A o \in ExecEnd(s, Committed(s)) : o \in Outcome /\ Ended(s, o, both)
  <2>1. \A o \in ExecEnd(s, Committed(s)) : o \in Outcome
    BY <1>3, ExecEndDrives DEF Driven
  <2>2. \A o \in ExecEnd(s, Committed(s)) : Ended(s, o, {s.durable, Committed(s).durable})
    BY <1>3, ExecEndEnds
  <2> QED BY <1>3, <2>1, <2>2 DEF Ended
<1>5. \A o \in ExecEnd(s, NoTx(s)) : o \in Outcome /\ Ended(s, o, {s.durable})
  <2>1. \A o \in ExecEnd(s, NoTx(s)) : o \in Outcome
    BY <1>2, ExecEndDrives DEF Driven
  <2>2. \A o \in ExecEnd(s, NoTx(s)) : Ended(s, o, {s.durable, NoTx(s).durable})
    BY <1>2, ExecEndEnds
  <2> QED BY <1>2, <2>1, <2>2 DEF Ended
<1>6. ~ s.inTx => \A o \in Throws(s) \cup Returns(s) : Ended(s, o, both) /\ Ended(s, o, {s.durable})
  BY DEF Throws, Returns, Ended, Converts
<1>7. ASSUME NEW os, NEW d, \A o \in os : o \in Outcome /\ Ended(s, o, d)
      PROVE  \A p \in ForgetAlways(os) \cup ForgetOnSuccess(os) : Ended(s, p, d)
  <2>1. \A o \in os : (o.err # "none") \in BOOLEAN
    OBVIOUS
  <2>2. ASSUME NEW o \in os, NEW f \in BOOLEAN PROVE Ended(s, [o EXCEPT !.s.inTx = f], d)
    BY <1>7, ForgottenEnds
  <2> QED BY <2>1, <2>2 DEF ForgetAlways, ForgetOnSuccess
<1>8. \A o \in DriverCommit(s) : Ended(s, o, both)
  BY <1>4, <1>6, <1>7 DEF DriverCommit, PgCommit, MSSQLCommit, NoneLeftBehind
<1>9. \A o \in DriverRollBack(s) : Ended(s, o, {s.durable})
  BY <1>5, <1>6, <1>7 DEF DriverRollBack, PgRollBack, MSSQLRollBack, NoneLeftBehind
<1>10. \A o \in DriverClose(s) : Ended(s, o, {s.durable})
  <2>1. \A o \in PgClose(s) : Ended(s, o, {s.durable})
    BY <1>5, <1>6, ForgottenEnds DEF PgClose
  <2>2. \A o \in MSSQLClose(s) : Ended(s, o, {s.durable})
    BY <1>5, <1>6, <1>7 DEF MSSQLClose
  <2> QED BY <2>1, <2>2 DEF DriverClose, NoneLeftBehind
<1> QED BY <1>8, <1>9, <1>10

-----------------------------------------------------------------------------
(* Keeping a state, one step after another. *)

LEMMA KeepsItself ==
  ASSUME NEW s, Sound(s)
  PROVE  Keeps(s, s) /\ Keeping(s, Returns(s)) /\ Keeping(s, Throws(s))
<1>1. Keeps(s, s) /\ s \in State
  BY DEF Sound, Keeps
<1> QED BY <1>1 DEF Keeping, Converts, Returns, Throws, Outcome, Ends

LEMMA KeepsOn ==
  ASSUME NEW s, NEW t, Keeps(s, t), NEW u, Keeps(t, u)
  PROVE  Keeps(s, u)
BY DEF Keeps

LEMMA KeepingOn ==
  ASSUME NEW s, NEW t, Keeps(s, t), NEW os, Keeping(t, os)
  PROVE  Keeping(s, os)
BY KeepsOn DEF Keeping

LEMMA FieldsKeep ==
  ASSUME NEW s, Sound(s), NEW t \in State,
         t.tx = s.tx, t.durable = s.durable, t.alive = s.alive, t.inTx = s.inTx,
         t.rollbackOnly = s.rollbackOnly, t.level = s.level \/ t.level # 0
  PROVE  Keeps(s, t)
BY DEF Sound, Keeps

LEMMA MovesKeep ==
  ASSUME NEW s, Sound(s), NEW t, MovesWrites(s, t), SameFields(s, t), t.inTx = s.inTx,
         s.rollbackOnly => Undoes(s, t)
  PROVE  Keeps(s, t)
BY DEF Sound, Keeps, MovesWrites, Undoes, SameFields

LEMMA EndedKeeps ==
  ASSUME NEW s, NEW t \in State, t.tx = <<>>, ~ s.alive => ~ t.alive,
         t.durable \subseteq s.durable \cup Pending(s.tx),
         s.rollbackOnly => t.durable \subseteq s.durable
  PROVE  Keeps(s, t)
BY PendingEmpty DEF Sound, Keeps

(* A Connection that drops its adapter drops no transaction with it. *)
LEMMA ResetKeeps ==
  ASSUME NoneLeftBehind, NEW s, NEW t, Keeps(s, t), ~ Pooled => t.tx = <<>>
  PROVE  Keeps(s, Reset(t)) /\ Reset(t) \in State /\ Reset(t).tx = <<>>
<1>1. t \in State /\ Sound(t) /\ Adapter # "sqlite3"
  BY DEF Keeps, Sound, NoneLeftBehind
<1>2. /\ NoTx(t) \in State /\ NoTx(t).tx = <<>> /\ NoTx(t).durable = t.durable
      /\ NoTx(t).alive = t.alive
  BY <1>1, SessionStates DEF NoTx, State
<1> DEFINE u == IF Pooled /\ t.inTx THEN NoTx(t) ELSE t
<1>3. u \in State /\ u.tx = <<>> /\ u.durable = t.durable /\ u.alive = t.alive
  BY <1>1, <1>2 DEF Sound
<1>4. Reset(t) = [u EXCEPT !.connected = FALSE, !.level = 0, !.rollbackOnly = FALSE, !.inTx = FALSE]
  BY <1>1 DEF Reset
<1>5. /\ Reset(t) \in State /\ Reset(t).tx = <<>> /\ Reset(t).durable = t.durable
      /\ Reset(t).alive = t.alive
  <2>1. Reset(t) \in State
    BY <1>1, ResetGood DEF Good
  <2> HIDE DEF u
  <2>2. Reset(t).tx = u.tx /\ Reset(t).durable = u.durable /\ Reset(t).alive = u.alive
    BY <1>3, <1>4 DEF State
  <2> QED BY <1>3, <2>1, <2>2
<1>6. Keeps(t, Reset(t))
  BY <1>5, PendingEmpty DEF Sound, Keeps
<1> QED BY <1>5, <1>6, KeepsOn

LEMMA ConvertKeeps ==
  ASSUME NoneLeftBehind, NEW s, NEW os, Keeping(s, os)
  PROVE  /\ Keeping(s, Convert(os))
         /\ \A o \in Convert(os) : (\E p \in os : o = p) \/ o.s.tx = <<>>
         /\ \A o \in Convert(os) : o.err = "none" => o \in os
<1>1. ASSUME NEW p \in os, p.err \in {"denied", "lost"}
      PROVE  /\ [s |-> Reset(p.s), err |-> "fail"] \in Outcome
             /\ Keeps(s, Reset(p.s)) /\ Reset(p.s).tx = <<>>
  <2>1. Keeps(s, p.s) /\ (~ Pooled => p.s.tx = <<>>)
    BY <1>1 DEF Keeping, Converts, Keeps, Sound
  <2> QED BY <2>1, ResetKeeps DEF Outcome, Ends
<1>2. ASSUME NEW o \in Convert(os)
      PROVE  /\ o \in Outcome /\ Keeps(s, o.s) /\ Converts(o)
             /\ (\E p \in os : o = p) \/ o.s.tx = <<>>
             /\ o.err = "none" => o \in os
  <2>1. PICK p \in os :
          o = IF p.err \in {"denied", "lost"} THEN [s |-> Reset(p.s), err |-> "fail"] ELSE p
    BY DEF Convert
  <2>2. CASE p.err \in {"denied", "lost"}
    <3>1. o.s = Reset(p.s) /\ o.err = "fail" /\ o = [s |-> Reset(p.s), err |-> "fail"]
      BY <2>1, <2>2
    <3> QED BY <1>1, <2>2, <3>1 DEF Converts
  <2>3. CASE p.err \notin {"denied", "lost"}
    BY <2>1, <2>3 DEF Keeping
  <2> QED BY <2>2, <2>3
<1> QED BY <1>2 DEF Keeping

-----------------------------------------------------------------------------
(* The methods of Connection. *)

LEMMA UnresolvedKeeps ==
  ASSUME NEW s, Sound(s)
  PROVE  /\ Keeping(s, PlatformUnresolved(s))
         /\ \A o \in PlatformUnresolved(s) : o.s.level = s.level /\ o.err # "none"
<1> DEFINE r == [s EXCEPT !.platform = TRUE]
<1>1. /\ r \in State /\ r.tx = s.tx /\ r.durable = s.durable /\ r.alive = s.alive
      /\ r.inTx = s.inTx /\ r.rollbackOnly = s.rollbackOnly /\ r.level = s.level
  BY DEF Sound, State
<1> HIDE DEF r
<1>2. Keeps(s, r) /\ Sound(r)
  BY <1>1, FieldsKeep DEF Keeps
<1>3. Keeping(s, Throws(r)) /\ Keeping(s, Throws(s))
  BY <1>2, KeepsItself, KeepingOn
<1>4. \A o \in Throws(r) \cup Throws(s) : o.s.level = s.level /\ o.err # "none"
  BY <1>1 DEF Throws
<1> QED BY <1>3, <1>4 DEF PlatformUnresolved, Keeping, r

(* Savepoints keep the state; only a commit releases one, and it does not  *)
(* when the transaction is marked.                                         *)
LEMMA SavepointMethodsKeep ==
  ASSUME NoneLeftBehind, NEW s, Sound(s)
  PROVE  /\ Keeping(s, CreateSavepoint(s)) /\ Keeping(s, RollbackSavepoint(s))
         /\ ~ s.rollbackOnly => Keeping(s, ReleaseSavepoint(s))
         /\ \A o \in RollbackSavepoint(s) : o.err = "none" => o.s.level = s.level
         /\ \A o \in ReleaseSavepoint(s) :
              ~ s.rollbackOnly => o.s.level = s.level \/ o.s.tx = <<>>
<1>1. /\ s \in State /\ s.level \in Nat /\ (~ s.alive => s.tx = <<>>)
      /\ Pending(s.tx) \cap s.durable = {}
  BY DEF Sound, State
<1> DEFINE n == s.level
<1>2. Served(s, ExecSavepoint(s, n)) /\ Served(s, ExecRelease(s, n)) /\ Served(s, ExecRollbackTo(s, n))
  BY <1>1, SavepointServes, ReleaseServes, RollbackToServes
<1>3. Keeping(s, ExecSavepoint(s, n)) /\ Keeping(s, ExecRollbackTo(s, n))
  <2>1. \A o \in ExecSavepoint(s, n) \cup ExecRollbackTo(s, n) : Undoes(s, o.s) /\ Converts(o)
    BY <1>1, SavepointUndoes
  <2>2. \A o \in ExecSavepoint(s, n) \cup ExecRollbackTo(s, n) :
          o \in Outcome /\ SameFields(s, o.s) /\ o.s.inTx = s.inTx
    BY <1>2 DEF Served
  <2>3. \A o \in ExecSavepoint(s, n) \cup ExecRollbackTo(s, n) : Keeps(s, o.s)
    BY <2>1, <2>2, MovesKeep DEF Undoes
  <2> QED BY <2>1, <2>2, <2>3 DEF Keeping
<1>4. ~ s.rollbackOnly => Keeping(s, ExecRelease(s, n))
  <2> SUFFICES ASSUME ~ s.rollbackOnly PROVE Keeping(s, ExecRelease(s, n))
    OBVIOUS
  <2>1. \A o \in ExecRelease(s, n) : MovesWrites(s, o.s) /\ Converts(o)
    BY <1>1, ReleaseMoves
  <2>2. \A o \in ExecRelease(s, n) : o \in Outcome /\ SameFields(s, o.s) /\ o.s.inTx = s.inTx
    BY <1>2 DEF Served
  <2>3. \A o \in ExecRelease(s, n) : Keeps(s, o.s)
    BY <2>1, <2>2, MovesKeep
  <2> QED BY <2>1, <2>2, <2>3 DEF Keeping
<1>5. Keeping(s, CreateSavepoint(s)) /\ Keeping(s, RollbackSavepoint(s))
  BY <1>3, ConvertKeeps, UnresolvedKeeps DEF CreateSavepoint, RollbackSavepoint
<1>6. ~ s.rollbackOnly => Keeping(s, ReleaseSavepoint(s))
  BY <1>4, ConvertKeeps, UnresolvedKeeps, KeepsItself DEF ReleaseSavepoint
<1>7. ASSUME NEW o \in RollbackSavepoint(s), o.err = "none" PROVE o.s.level = s.level
  <2>1. CASE Known(s)
    <3>1. o \in ExecRollbackTo(s, n)
      BY <1>3, <1>7, <2>1, ConvertKeeps DEF RollbackSavepoint
    <3> QED BY <1>2, <3>1 DEF Served, SameFields
  <2>2. CASE ~ Known(s)
    BY <1>7, <2>2, UnresolvedKeeps DEF RollbackSavepoint
  <2> QED BY <2>1, <2>2
<1>8. ASSUME NEW o \in ReleaseSavepoint(s), ~ s.rollbackOnly
      PROVE  o.s.level = s.level \/ o.s.tx = <<>>
  <2>1. ASSUME o \in Convert(ExecRelease(s, n)) PROVE o.s.level = s.level \/ o.s.tx = <<>>
    <3>1. (\E p \in ExecRelease(s, n) : o = p) \/ o.s.tx = <<>>
      BY <1>4, <1>8, <2>1, ConvertKeeps
    <3> QED BY <1>2, <3>1 DEF Served, SameFields
  <2>2. ASSUME o \in PlatformUnresolved(s) \cup Returns(s) PROVE o.s.level = s.level
    BY <2>2, UnresolvedKeeps DEF Returns
  <2> QED BY <2>1, <2>2 DEF ReleaseSavepoint
<1> QED BY <1>5, <1>6, <1>7, <1>8

LEMMA BeginConnectedKeeps ==
  ASSUME NoneLeftBehind, NEW s, Sound(s)
  PROVE  Keeping(s, BeginConnected(s))
<1> DEFINE up == [s EXCEPT !.level = @ + 1]
<1>1. /\ up \in State /\ up.tx = s.tx /\ up.durable = s.durable /\ up.alive = s.alive
      /\ up.inTx = s.inTx /\ up.rollbackOnly = s.rollbackOnly /\ up.level # 0
  BY DEF Sound, State
<1>2. BeginConnected(s) = Convert(IF up.level = 1 THEN DriverBegin(up) ELSE CreateSavepoint(up))
  BY DEF BeginConnected
<1> HIDE DEF up
<1>3. Keeps(s, up) /\ Sound(up)
  BY <1>1, FieldsKeep DEF Keeps
<1>4. Keeping(up, DriverBegin(up))
  <2>1. ASSUME NEW o \in DriverBegin(up) PROVE o \in Outcome /\ Keeps(up, o.s) /\ Converts(o)
    <3>1. o \in Outcome /\ o.s \in State /\ o.s.level # 0 /\ o.s.rollbackOnly = up.rollbackOnly
      BY <1>1, BeginDrives DEF Driven, SameFields, Outcome
    <3>2. /\ Pending(o.s.tx) \subseteq Pending(up.tx) /\ o.s.durable = up.durable
          /\ ~ o.s.alive => o.s.tx = <<>>
          /\ ~ Pooled /\ ~ up.alive => ~ o.s.alive
          /\ o.s.tx # <<>> => o.s.inTx
          /\ Converts(o)
      BY <1>3, BeginUndoes DEF Sound
    <3>3. Pending(up.tx) \cap up.durable = {}
      BY <1>3 DEF Sound
    <3> QED BY <3>1, <3>2, <3>3 DEF Keeps, Sound
  <2> QED BY <2>1 DEF Keeping
<1>5. Keeping(up, CreateSavepoint(up))
  BY <1>3, SavepointMethodsKeep
<1> QED BY <1>2, <1>3, <1>4, <1>5, ConvertKeeps, KeepingOn

LEMMA ConnectKeeps ==
  ASSUME NoneLeftBehind, NEW s, Sound(s)
  PROVE  Keeping(s, Connect(s))
<1>1. CASE s.connected
  BY <1>1, KeepsItself DEF Connect
<1>2. CASE ~ s.connected
  <2> DEFINE up       == [s EXCEPT !.connected = TRUE]
             opened   == PerformConnect(s)
             resolved == UNION { ResolveDatabasePlatform(t) : t \in Resolved(opened) }
             begun    == UNION { BeginConnected(t) : t \in Resolved(resolved) }
             all      == Thrown(opened) \cup
                         (IF s.autoCommit THEN resolved ELSE Thrown(resolved) \cup begun)
  <2>1. /\ up \in State /\ up.tx = s.tx /\ up.durable = s.durable /\ up.alive = s.alive
        /\ up.inTx = s.inTx /\ up.rollbackOnly = s.rollbackOnly /\ up.level = s.level
    BY DEF Sound, State
  <2>2. Keeps(s, up) /\ Sound(up)
    <3> HIDE DEF up
    <3> QED BY <2>1, FieldsKeep DEF Keeps
  <2>3. Keeping(s, opened)
    <3>1. Keeping(s, Returns(up)) /\ Keeping(s, Throws(s))
      <4> HIDE DEF up
      <4> QED BY <2>2, KeepsItself, KeepingOn
    <3> QED BY <3>1 DEF PerformConnect, Keeping
  <2>4. ASSUME NEW t \in Resolved(opened) PROVE Keeping(s, ResolveDatabasePlatform(t))
    <3>1. Keeps(s, t) /\ Sound(t) /\ t \in State
      BY <2>3 DEF Resolved, Keeping, Keeps, Sound
    <3> DEFINE r == [t EXCEPT !.platform = TRUE]
    <3>2. /\ r \in State /\ r.tx = t.tx /\ r.durable = t.durable /\ r.alive = t.alive
          /\ r.inTx = t.inTx /\ r.rollbackOnly = t.rollbackOnly /\ r.level = t.level
          /\ SameFields(t, r)
      BY <3>1 DEF State, SameFields
    <3>3. ResolveDatabasePlatform(t) \subseteq Returns(r) \cup Exec(t, r)
      BY DEF ResolveDatabasePlatform
    <3> HIDE DEF r
    <3>4. Keeps(t, r) /\ Sound(r)
      BY <3>1, <3>2, FieldsKeep DEF Keeps
    <3>5. Keeping(t, Returns(r))
      BY <3>4, KeepsItself, KeepingOn
    <3>6. Keeping(t, Exec(t, r))
      <4>1. ASSUME NEW o \in Exec(t, r) PROVE o \in Outcome /\ Keeps(t, o.s) /\ Converts(o)
        <5>1. o \in Outcome /\ SameFields(t, o.s) /\ o.s.inTx = t.inTx
          BY <3>1, <3>2, ExecServes DEF Served
        <5>2. (o.s = r \/ Undoes(t, o.s)) /\ Converts(o)
          BY <3>1, <3>2, ExecMoves DEF Sound
        <5> QED BY <3>1, <3>4, <5>1, <5>2, MovesKeep DEF Undoes
      <4> QED BY <4>1 DEF Keeping
    <3>7. Keeping(s, Returns(r) \cup Exec(t, r))
      BY <3>1, <3>5, <3>6, KeepingOn DEF Keeping
    <3> QED BY <3>3, <3>7 DEF Keeping
  <2>5. Keeping(s, resolved)
    BY <2>4 DEF Keeping
  <2>6. ASSUME NEW t \in Resolved(resolved) PROVE Keeping(s, BeginConnected(t))
    <3>1. Keeps(s, t) /\ Sound(t)
      BY <2>5 DEF Resolved, Keeping, Keeps
    <3> QED BY <3>1, BeginConnectedKeeps, KeepingOn
  <2>7. Keeping(s, all)
    BY <2>3, <2>5, <2>6 DEF Keeping, Thrown
  <2>8. Keeping(s, Convert(all))
    BY <2>7, ConvertKeeps
  <2> QED BY <1>2, <2>8 DEF Connect
<1> QED BY <1>1, <1>2

LEMMA BeginTransactionKeeps ==
  ASSUME NoneLeftBehind, NEW s, Sound(s)
  PROVE  Keeping(s, BeginTransaction(s))
<1>1. Keeping(s, Connect(s))
  BY ConnectKeeps
<1>2. ASSUME NEW t \in Resolved(Connect(s)) PROVE Keeping(s, BeginConnected(t))
  <2>1. Keeps(s, t) /\ Sound(t)
    BY <1>1 DEF Resolved, Keeping, Keeps
  <2> QED BY <2>1, BeginConnectedKeeps, KeepingOn
<1> QED BY <1>1, <1>2 DEF BeginTransaction, Keeping, Thrown

(* Where a finally block begins the next transaction, none is open: the    *)
(* mark it clears is no longer the mark of a transaction.                  *)
LEMMA FinallyBeginKeeps ==
  ASSUME NoneLeftBehind, NEW s \in State, s.tx = <<>>, NEW err \in Ends,
         (err \in {"denied", "lost"} /\ ~ Pooled) => ~ s.alive
  PROVE  Keeping(s, FinallyBegin(s, err))
<1> DEFINE r == [s EXCEPT !.rollbackOnly = FALSE]
<1>1. r \in State /\ r.tx = <<>> /\ r.durable = s.durable /\ r.alive = s.alive
  BY DEF State
<1>2. FinallyBegin(s, err) = { IF b.err = "none" THEN [b EXCEPT !.err = err] ELSE b
                                 : b \in BeginTransaction(r) }
  BY DEF FinallyBegin
<1> HIDE DEF r
<1>3. Keeps(s, r) /\ Sound(r)
  BY <1>1, EndedKeeps DEF Keeps
<1>4. Keeping(s, BeginTransaction(r)) /\ Keeping(r, BeginTransaction(r))
  BY <1>3, BeginTransactionKeeps, KeepingOn
<1>5. ASSUME NEW b \in BeginTransaction(r)
      PROVE  LET o == [b EXCEPT !.err = err]
             IN  o \in Outcome /\ Keeps(s, o.s) /\ Converts(o)
  <2>1. b \in Outcome /\ Keeps(s, b.s) /\ Keeps(r, b.s)
    BY <1>4 DEF Keeping
  <2>2. [b EXCEPT !.err = err] \in Outcome /\ [b EXCEPT !.err = err] = [s |-> b.s, err |-> err]
    BY <2>1 DEF Outcome
  <2>3. ~ Pooled /\ ~ r.alive => ~ b.s.alive
    BY <2>1 DEF Keeps
  <2> QED BY <1>1, <2>1, <2>2, <2>3 DEF Converts
<1>6. ASSUME NEW o \in FinallyBegin(s, err) PROVE o \in Outcome /\ Keeps(s, o.s) /\ Converts(o)
  <2>1. PICK b \in BeginTransaction(r) : o = IF b.err = "none" THEN [b EXCEPT !.err = err] ELSE b
    BY <1>2
  <2> QED BY <1>4, <1>5, <2>1 DEF Keeping
<1> QED BY <1>6 DEF Keeping

LEMMA AfterCommitKeeps ==
  ASSUME NoneLeftBehind, NEW s, s \in State, Keeps(s, s), s.tx # <<>> => s.level > 1,
         NEW err \in {"none", "fail"}
  PROVE  Keeping(s, AfterCommit(s, err))
<1> DEFINE n    == IF s.level = 0 THEN 0 ELSE s.level - 1
           down == [s EXCEPT !.level = IF @ = 0 THEN 0 ELSE @ - 1]
<1>1. s.level \in Nat /\ n \in Nat /\ (n = 0 => s.tx = <<>>)
  BY DEF State
<1>2. /\ down \in State /\ down.tx = s.tx /\ down.durable = s.durable /\ down.alive = s.alive
      /\ down.inTx = s.inTx /\ down.rollbackOnly = s.rollbackOnly /\ down.level = n
  <2>1. down = [s EXCEPT !.level = n]
    BY DEF State
  <2> HIDE DEF n, down
  <2> QED BY <1>1, <2>1 DEF State
<1>3. AfterCommit(s, err) = IF down.autoCommit \/ down.level # 0
                            THEN {[s |-> down, err |-> err]}
                            ELSE FinallyBegin(down, err)
  BY DEF AfterCommit
<1> HIDE DEF down, n
<1>4. Keeps(s, down)
  BY <1>1, <1>2 DEF Keeps, Sound
<1>5. Keeping(s, {[s |-> down, err |-> err]})
  BY <1>2, <1>4 DEF Keeping, Outcome, Converts, Ends
<1>6. CASE down.level = 0
  <2>1. err \in Ends /\ down.tx = <<>>
    BY <1>1, <1>2, <1>6 DEF Ends
  <2>2. Keeping(s, FinallyBegin(down, err))
    BY <1>2, <1>4, <2>1, FinallyBeginKeeps, KeepingOn
  <2> QED BY <1>3, <1>5, <2>2
<1>7. CASE down.level # 0
  BY <1>3, <1>5, <1>7
<1> QED BY <1>6, <1>7

LEMMA CommitKeeps ==
  ASSUME NoneLeftBehind, NEW s, Sound(s)
  PROVE  Keeping(s, Commit(s))
<1>1. CASE s.level = 0 \/ s.rollbackOnly
  BY <1>1, KeepsItself DEF Commit
<1>2. CASE ~ (s.level = 0 \/ s.rollbackOnly)
  <2> DEFINE os == IF s.level = 1 THEN DriverCommit(s) ELSE ReleaseSavepoint(s)
  <2>1. s \in State /\ s.level \in Nat \ {0} /\ ~ s.rollbackOnly
    BY <1>2 DEF Sound, State
  <2>2. Keeping(s, os) /\ \A o \in os : o.s.tx = <<>> \/ o.s.level > 1
    <3>1. CASE s.level = 1
      <4>1. ASSUME NEW o \in DriverCommit(s)
            PROVE  o \in Outcome /\ Keeps(s, o.s) /\ Converts(o) /\ o.s.tx = <<>>
        <5>1. o \in Outcome /\ o.s \in State
          BY <2>1, CommitDrives DEF Driven, Outcome
        <5>2. Ended(s, o, {s.durable, s.durable \cup Pending(s.tx)})
          BY <2>1, EndsTransaction DEF Sound
        <5>3. Keeps(s, o.s)
          BY <2>1, <5>1, <5>2, EndedKeeps DEF Ended
        <5> QED BY <5>1, <5>2, <5>3 DEF Ended
      <4> QED BY <3>1, <4>1 DEF Keeping
    <3>2. CASE s.level # 1
      BY <2>1, <3>2, SavepointMethodsKeep
    <3> QED BY <3>1, <3>2
  <2>3. ASSUME NEW o \in Convert(os) PROVE Keeping(s, AfterCommit(o.s, o.err))
    <3>1. Keeps(s, o.s) /\ (o.s.tx # <<>> => o.s.level > 1)
      BY <2>2, ConvertKeeps DEF Keeping
    <3>2. o.err \in {"none", "fail"}
      BY <2>2 DEF Convert, Keeping, Outcome, Ends
    <3>3. o.s \in State /\ Keeps(o.s, o.s)
      BY <3>1, KeepsItself DEF Keeps, Sound
    <3> QED BY <3>1, <3>2, <3>3, AfterCommitKeeps, KeepingOn
  <2>4. Keeping(s, UNION { AfterCommit(o.s, o.err) : o \in Convert(os) })
    BY <2>3 DEF Keeping
  <2> QED BY <1>2, <2>4 DEF Commit
<1> QED BY <1>1, <1>2

LEMMA RollBackKeeps ==
  ASSUME NoneLeftBehind, NEW s, Sound(s)
  PROVE  Keeping(s, RollBack(s)) /\ Keeping(s, RollBackIfActive(s))
<1>1. CASE s.level = 0
  BY <1>1, KeepsItself DEF RollBack, RollBackIfActive
<1>2. CASE s.level = 1
  <2> DEFINE zero == [s EXCEPT !.level = 0]
  <2>1. /\ zero \in State /\ zero.tx = s.tx /\ zero.durable = s.durable
        /\ zero.alive = s.alive /\ zero.inTx = s.inTx
    BY DEF Sound, State
  <2>2. RollBackOutermost(s) =
          UNION { IF s.autoCommit THEN {[o EXCEPT !.s.rollbackOnly = FALSE]}
                  ELSE FinallyBegin(o.s, o.err) : o \in DriverRollBack(zero) }
    BY DEF RollBackOutermost
  <2> HIDE DEF zero
  <2>3. ASSUME NEW o \in DriverRollBack(zero)
        PROVE  /\ Keeping(s, {[o EXCEPT !.s.rollbackOnly = FALSE]})
               /\ Keeping(s, FinallyBegin(o.s, o.err))
    <3>1. o \in Outcome /\ o.s \in State /\ o.err \in Ends
      BY <2>1, RollBackDrives DEF Driven, Outcome
    <3>2. Ended(zero, o, {zero.durable})
      BY <2>1, EndsTransaction DEF Sound
    <3>3. Keeps(s, o.s)
      BY <2>1, <3>1, <3>2, EndedKeeps DEF Ended
    <3> DEFINE t == [o.s EXCEPT !.rollbackOnly = FALSE]
    <3>4. t \in State /\ t.tx = o.s.tx /\ t.durable = o.s.durable /\ t.alive = o.s.alive
      BY <3>1 DEF State
    <3> HIDE DEF t
    <3>5. [o EXCEPT !.s.rollbackOnly = FALSE] = [s |-> t, err |-> o.err]
      <4>1. [o EXCEPT !.s = t] = [s |-> t, err |-> o.err]
        BY <3>1 DEF Outcome
      <4>2. [o EXCEPT !.s.rollbackOnly = FALSE] = [o EXCEPT !.s = t]
        BY <3>1 DEF Outcome, t
      <4> QED BY <4>1, <4>2
    <3>6. Keeps(s, t)
      BY <2>1, <3>2, <3>4, EndedKeeps DEF Ended
    <3>7. Keeping(s, {[o EXCEPT !.s.rollbackOnly = FALSE]})
      BY <3>1, <3>2, <3>4, <3>5, <3>6 DEF Keeping, Outcome, Ended, Converts
    <3>8. Keeping(o.s, FinallyBegin(o.s, o.err))
      BY <3>1, <3>2, FinallyBeginKeeps DEF Ended, Converts
    <3> QED BY <3>3, <3>7, <3>8, KeepingOn
  <2>4. Keeping(s, RollBackOutermost(s))
    BY <2>2, <2>3 DEF Keeping
  <2> QED BY <1>2, <2>4, ConvertKeeps DEF RollBack, RollBackIfActive
<1>3. CASE s.level \notin {0, 1}
  <2>1. Keeping(s, RollbackSavepoint(s))
    BY SavepointMethodsKeep
  <2>2. ASSUME NEW o \in RollbackSavepoint(s), o.err = "none"
        PROVE  LET p == [o EXCEPT !.s.level = @ - 1]
               IN  p \in Outcome /\ Keeps(s, p.s) /\ Converts(p)
    <3>1. o \in Outcome /\ o.s \in State /\ Keeps(s, o.s) /\ o.s.level = s.level
      BY <2>1, <2>2, SavepointMethodsKeep DEF Keeping, Outcome
    <3>2. s.level - 1 \in Nat \ {0}
      BY <1>3 DEF Sound, State
    <3> DEFINE t == [o.s EXCEPT !.level = s.level - 1]
    <3>3. /\ t \in State /\ t.tx = o.s.tx /\ t.durable = o.s.durable /\ t.alive = o.s.alive
          /\ t.inTx = o.s.inTx /\ t.rollbackOnly = o.s.rollbackOnly /\ t.level # 0
      BY <3>1, <3>2 DEF State
    <3>4. [o EXCEPT !.s.level = @ - 1] = [s |-> t, err |-> "none"]
      BY <2>2, <3>1 DEF Outcome
    <3> HIDE DEF t
    <3>5. Keeps(o.s, t)
      BY <3>1, <3>3, FieldsKeep DEF Keeps
    <3>6. Keeps(s, t)
      BY <3>1, <3>5, KeepsOn
    <3> QED BY <3>3, <3>4, <3>6 DEF Outcome, Ends, Converts
  <2>3. Keeping(s, RollBackNested(s))
    BY <2>1, <2>2 DEF RollBackNested, Keeping
  <2> QED BY <1>3, <2>3, ConvertKeeps DEF RollBack, RollBackIfActive
<1> QED BY <1>1, <1>2, <1>3

LEMMA CloseKeeps ==
  ASSUME NoneLeftBehind, NEW s, Sound(s)
  PROVE  Keeping(s, Close(s))
<1>1. CASE ~ s.connected
  BY <1>1, KeepsItself DEF Close
<1>2. CASE s.connected
  <2>1. s \in State
    BY DEF Sound
  <2>2. ASSUME NEW o \in DriverClose(s)
        PROVE  o \in Outcome /\ Keeps(s, o.s) /\ Converts(o) /\ o.s.tx = <<>>
    <3>1. o \in Outcome /\ o.s \in State
      BY <2>1, CloseDrives DEF Driven, Outcome
    <3>2. Ended(s, o, {s.durable})
      BY <2>1, EndsTransaction DEF Sound
    <3>3. Keeps(s, o.s)
      BY <2>1, <3>1, <3>2, EndedKeeps DEF Ended
    <3> QED BY <3>1, <3>2, <3>3 DEF Ended
  <2>3. Keeping(s, DriverClose(s))
    BY <2>2 DEF Keeping
  <2>4. Keeping(s, Convert(DriverClose(s))) /\ \A o \in Convert(DriverClose(s)) : o.s.tx = <<>>
    BY <2>2, <2>3, ConvertKeeps
  <2>5. ASSUME NEW o \in Convert(DriverClose(s))
        PROVE  LET p == IF o.err = "none" THEN [o EXCEPT !.s = Reset(@)] ELSE o
               IN  p \in Outcome /\ Keeps(s, p.s) /\ Converts(p)
    <3>1. o \in Outcome /\ Keeps(s, o.s) /\ Converts(o)
      BY <2>4 DEF Keeping
    <3>2. CASE o.err = "none"
      <4>1. Keeps(s, Reset(o.s)) /\ Reset(o.s) \in State
        BY <2>4, <3>1, ResetKeeps
      <4>2. [o EXCEPT !.s = Reset(@)] = [s |-> Reset(o.s), err |-> "none"]
        BY <3>1, <3>2 DEF Outcome
      <4> QED BY <3>2, <4>1, <4>2 DEF Outcome, Ends, Converts
    <3>3. CASE o.err # "none"
      BY <3>1, <3>3
    <3> QED BY <3>2, <3>3
  <2> QED BY <1>2, <2>5 DEF Close, Keeping
<1> QED BY <1>1, <1>2

(* A statement that returns has been executed on a state the connecting    *)
(* left, one that throws has executed nothing.                             *)
LEMMA ExecuteStatementKeeps ==
  ASSUME NoneLeftBehind, NEW s, Sound(s), NEW w \in Writes,
         NEW o \in ExecuteStatement(s, w)
  PROVE  /\ o.err # "none" => Keeps(s, o.s)
         /\ o.err = "none" => \E t : Keeps(s, t) /\ t.alive /\ o.s = Written(t, w)
<1>1. Keeping(s, Connect(s))
  BY ConnectKeeps
<1>2. CASE o \in Thrown(Connect(s))
  BY <1>1, <1>2 DEF Thrown, Keeping
<1>3. ASSUME NEW t \in Resolved(Connect(s)), o \in Convert(DriverExec(t, w))
      PROVE  /\ o.err # "none" => Keeps(s, o.s)
             /\ o.err = "none" => Keeps(s, t) /\ t.alive /\ o.s = Written(t, w)
  <2>1. Keeps(s, t) /\ Sound(t) /\ t \in State /\ (~ t.alive => t.tx = <<>>)
        /\ Pending(t.tx) \cap t.durable = {}
    BY <1>1 DEF Resolved, Keeping, Keeps, Sound
  <2>2. Written(t, w) \in State
    BY <2>1, WrittenState
  <2>3. PICK p \in DriverExec(t, w) :
          o = IF p.err \in {"denied", "lost"} THEN [s |-> Reset(p.s), err |-> "fail"] ELSE p
    BY <1>3 DEF Convert
  <2>4. p \in Outcome /\ SameFields(t, p.s) /\ p.s.inTx = t.inTx
    BY <2>1, DriverExecServes DEF Served
  <2>5. p \in Exec(t, Written(t, w)) \/ (p = [s |-> t, err |-> "denied"] /\ Pooled)
    BY <2>3 DEF DriverExec, NoneLeftBehind
  <2>6. CASE p.err = "none"
    <3>1. p \in Exec(t, Written(t, w))
      BY <2>5, <2>6
    <3>2. p.s = Written(t, w)
      BY <2>1, <2>2, <2>6, <3>1, ExecMoves
    <3>3. t.alive
      BY <2>6, <3>1 DEF Exec
    <3> QED BY <2>1, <2>3, <2>6, <3>2, <3>3
  <2>7. CASE p.err # "none"
    <3>1. Undoes(t, p.s) /\ Converts(p)
      BY <2>1, <2>2, <2>5, <2>7, ExecMoves, SessionUndoes DEF Converts
    <3>2. Keeps(t, p.s)
      BY <2>1, <2>4, <3>1, MovesKeep DEF Undoes
    <3>3. Keeps(s, p.s)
      BY <2>1, <3>2, KeepsOn
    <3>4. p.err \in {"denied", "lost"} => Keeps(s, Reset(p.s))
      <4>1. p.err \in {"denied", "lost"} /\ ~ Pooled => p.s.tx = <<>>
        BY <3>1, <3>3 DEF Converts, Keeps, Sound
      <4> QED BY <3>3, <4>1, ResetKeeps
    <3> QED BY <2>3, <2>7, <3>3, <3>4
  <2> QED BY <2>6, <2>7
<1> QED BY <1>2, <1>3 DEF ExecuteStatement, Thrown

-----------------------------------------------------------------------------
(* The specification.  A doomed write is not durable, and while it may     *)
(* still become so, pending in the open transaction, the mark is there; a  *)
(* write no caller has executed yet is in none of the three.               *)

Marked(s, d, u) ==
  /\ Sound(s)
  /\ d \cap s.durable = {}
  /\ ~ s.rollbackOnly => d \cap Pending(s.tx) = {}
  /\ u \cap (d \cup s.durable \cup Pending(s.tx)) = {}

MarkInv == Marked(c, doomed, unused)

LEMMA KeepsMarked ==
  ASSUME NEW s, NEW d, NEW u, Marked(s, d, u), NEW t, Keeps(s, t)
  PROVE  Marked(t, d, u)
<1>1. Sound(t)
  BY DEF Keeps
<1>2. d \cap t.durable = {}
  BY DEF Marked, Keeps
<1>3. ~ t.rollbackOnly => d \cap Pending(t.tx) = {}
  BY DEF Marked, Keeps
<1>4. u \cap (d \cup t.durable \cup Pending(t.tx)) = {}
  BY DEF Marked, Keeps
<1> QED BY <1>1, <1>2, <1>3, <1>4 DEF Marked

(* A write that is executed is new: it is doomed with the transaction it   *)
(* joins, and outside a transaction it is durable and no part of one.      *)
LEMMA WrittenMarked ==
  ASSUME NEW s, NEW d, NEW u, Marked(s, d, u), s.alive, NEW w \in Writes \cap u
  PROVE  LET t == Written(s, w)
         IN  Marked(t, IF t.rollbackOnly /\ t.tx # <<>> THEN d \cup {w} ELSE d, u \ {w})
<1> DEFINE t == Written(s, w)
<1>1. s \in State /\ Sound(s)
  BY DEF Marked, Sound
<1>2. t \in State /\ SameFields(s, t) /\ t.inTx = s.inTx
  BY <1>1, WrittenState
<1>3. CASE s.tx = <<>>
  <2>1. t = [s EXCEPT !.durable = @ \cup {w}]
    BY <1>3 DEF Written
  <2>2. t.tx = <<>> /\ t.durable = s.durable \cup {w} /\ t.alive = s.alive
    BY <1>1, <1>3, <2>1 DEF State
  <2> HIDE DEF t
  <2>3. Sound(t)
    BY <1>2, <2>2, PendingEmpty DEF Sound
  <2> QED BY <1>3, <2>2, <2>3, PendingEmpty DEF Marked, t
<1>4. CASE s.tx # <<>>
  <2>1. t.tx # <<>> /\ Pending(t.tx) = Pending(s.tx) \cup {w} /\ t.durable = s.durable
    BY <1>1, <1>4, PendingWritten
  <2>2. t.alive = s.alive
    BY <1>1, <1>4 DEF Written, State
  <2>3. w \notin s.durable /\ w \notin d
    BY DEF Marked
  <2> HIDE DEF t
  <2>4. Sound(t)
    BY <1>1, <1>2, <1>4, <2>1, <2>2, <2>3 DEF Sound, SameFields
  <2>5. t.rollbackOnly = s.rollbackOnly
    BY <1>2 DEF SameFields
  <2>6. CASE s.rollbackOnly
    <3>1. Marked(t, d \cup {w}, u \ {w})
      BY <2>1, <2>3, <2>4, <2>5, <2>6 DEF Marked
    <3> QED BY <2>1, <2>5, <2>6, <3>1 DEF t
  <2>7. CASE ~ s.rollbackOnly
    <3>1. Marked(t, d, u \ {w})
      BY <2>1, <2>3, <2>4, <2>5, <2>7 DEF Marked
    <3> QED BY <2>1, <2>5, <2>7, <3>1 DEF t
  <2> QED BY <2>6, <2>7
<1> QED BY <1>3, <1>4

LEMMA InitMarked == Init => MarkInv
<1> SUFFICES ASSUME Init PROVE MarkInv
  OBVIOUS
<1>1. c \in State
  BY InitGood DEF IInv, Good
<1>2. /\ c.tx = <<>> /\ c.durable = {} /\ doomed = {}
  BY DEF Init
<1>3. Pending(c.tx) = {}
  BY <1>2, PendingEmpty
<1>4. c.alive = TRUE
  BY DEF Init
<1> QED BY <1>1, <1>2, <1>3, <1>4 DEF MarkInv, Marked, Sound

(* Every step keeps the invariant: one step of the proof per action. *)
LEMMA NextMarked == NoneLeftBehind /\ MarkInv /\ [Next]_vars => MarkInv'
<1> SUFFICES ASSUME NoneLeftBehind, MarkInv, [Next]_vars PROVE MarkInv'
  OBVIOUS
<1>1. Marked(c, doomed, unused) /\ Sound(c) /\ c \in State
  BY DEF MarkInv, Marked, Sound
<1>2. ASSUME NEW os, Keeping(c, os), NEW o \in os, c' = o.s, UNCHANGED <<unused, doomed>>
      PROVE  MarkInv'
  BY <1>1, <1>2, KeepsMarked DEF Keeping, MarkInv
<1>3. CASE CallConnect
  BY <1>1, <1>2, <1>3, ConnectKeeps DEF CallConnect
<1>4. ASSUME NEW w \in Writes, CallExecuteStatement(w) PROVE MarkInv'
  <2>1. PICK o \in ExecuteStatement(c, w) :
          /\ c' = o.s
          /\ IF o.err = "none"
             THEN /\ unused' = unused \ {w}
                  /\ doomed' = IF o.s.rollbackOnly /\ o.s.tx # <<>> THEN doomed \cup {w} ELSE doomed
             ELSE UNCHANGED <<unused, doomed>>
    BY <1>4 DEF CallExecuteStatement
  <2>2. CASE o.err = "none"
    <3>1. PICK t : Keeps(c, t) /\ t.alive /\ o.s = Written(t, w)
      BY <1>1, <2>2, ExecuteStatementKeeps
    <3>2. Marked(t, doomed, unused)
      BY <1>1, <3>1, KeepsMarked
    <3>3. w \in Writes \cap unused
      BY <1>4 DEF CallExecuteStatement
    <3> DEFINE v == Written(t, w)
               d == IF v.rollbackOnly /\ v.tx # <<>> THEN doomed \cup {w} ELSE doomed
    <3>4. Marked(v, d, unused \ {w})
      BY <3>1, <3>2, <3>3, WrittenMarked
    <3>5. c' = v /\ doomed' = d /\ unused' = unused \ {w}
      BY <2>1, <2>2, <3>1
    <3>6. Marked(c', doomed', unused')
      <4> HIDE DEF v, d
      <4> QED BY <3>4, <3>5
    <3> QED BY <3>6 DEF MarkInv
  <2>3. CASE o.err # "none"
    <3>1. Keeps(c, o.s)
      BY <1>1, <2>3, ExecuteStatementKeeps
    <3> QED BY <1>1, <2>1, <2>3, <3>1, KeepsMarked DEF MarkInv
  <2> QED BY <2>2, <2>3
<1>5. ASSUME NEW k \in {"manual", "transactional"}, CallBeginTransaction(k) PROVE MarkInv'
  BY <1>1, <1>2, <1>5, BeginTransactionKeeps DEF CallBeginTransaction
<1>6. CASE CallCommit
  BY <1>1, <1>2, <1>6, CommitKeeps DEF CallCommit
<1>7. CASE CallRollBack
  BY <1>1, <1>2, <1>7, RollBackKeeps DEF CallRollBack
<1>8. CASE CallSetRollbackOnly
  <2>1. /\ c' = [c EXCEPT !.rollbackOnly = TRUE] /\ doomed' = doomed \cup Pending(c.tx)
        /\ unused' = unused /\ c.level # 0
    BY <1>8 DEF CallSetRollbackOnly
  <2>2. /\ c' \in State /\ c'.rollbackOnly /\ c'.tx = c.tx /\ c'.durable = c.durable
        /\ c'.level = c.level /\ c'.inTx = c.inTx /\ c'.alive = c.alive
    BY <1>1, <2>1 DEF State
  <2>3. Sound(c')
    BY <1>1, <2>2 DEF Sound
  <2>4. Pending(c.tx) \cap c.durable = {}
    BY <1>1 DEF Sound
  <2> QED BY <1>1, <2>1, <2>2, <2>3, <2>4 DEF MarkInv, Marked
<1>9. CASE TransactionalReturns
  <2>1. PICK o \in Commit(c) : IF o.err = "none" THEN c' = o.s
                               ELSE \E r \in RollBackIfActive(o.s) : c' = r.s
    BY <1>9 DEF TransactionalReturns
  <2>2. Keeps(c, o.s) /\ Sound(o.s)
    BY <1>1, CommitKeeps DEF Keeping, Keeps
  <2>3. Keeping(c, RollBackIfActive(o.s))
    BY <2>2, RollBackKeeps, KeepingOn
  <2>4. Keeps(c, c')
    BY <2>1, <2>2, <2>3 DEF Keeping
  <2>5. UNCHANGED <<unused, doomed>>
    BY <1>9 DEF TransactionalReturns
  <2> QED BY <1>1, <2>4, <2>5, KeepsMarked DEF MarkInv
<1>10. CASE TransactionalThrows
  BY <1>1, <1>2, <1>10, RollBackKeeps DEF TransactionalThrows
<1>11. CASE CallSetAutoCommit
  <2>1. c' = [c EXCEPT !.autoCommit = ~ @] /\ UNCHANGED <<unused, doomed>>
    BY <1>11 DEF CallSetAutoCommit
  <2>2. /\ c' \in State /\ c'.tx = c.tx /\ c'.durable = c.durable /\ c'.alive = c.alive
        /\ c'.inTx = c.inTx /\ c'.rollbackOnly = c.rollbackOnly /\ c'.level = c.level
    BY <1>1, <2>1 DEF State
  <2>3. Keeps(c, c')
    BY <1>1, <2>2, FieldsKeep
  <2> QED BY <1>1, <2>1, <2>3, KeepsMarked DEF MarkInv
<1>12. CASE CommitAll
  BY <1>1, <1>2, <1>12, CommitKeeps DEF CommitAll
<1>13. CASE CallClose
  BY <1>1, <1>2, <1>13, CloseKeeps DEF CallClose
<1>14. CASE UNCHANGED vars
  BY <1>14 DEF vars, MarkInv, Marked, Sound
<1> QED
  BY <1>3, <1>4, <1>5, <1>6, <1>7, <1>8, <1>9, <1>10, <1>11, <1>12, <1>13, <1>14 DEF Next

(* A write of a transaction marked rollback-only never becomes durable,    *)
(* through savepoints released or rolled back, calls that fail,            *)
(* connections lost and auto-commit changed at any level: with pg and      *)
(* mssql, unless the database leaves open a transaction it refused to end, *)
(* or the single client of a pg adapter survives an error that is taken    *)
(* for a lost connection.                                                  *)
THEOREM AlwaysDoomedNeverDurable == NoneLeftBehind => (Spec => []DoomedNeverDurable)
<1> SUFFICES ASSUME NoneLeftBehind PROVE Spec => []DoomedNeverDurable
  OBVIOUS
<1>1. MarkInv => DoomedNeverDurable
  BY DEF MarkInv, Marked, DoomedNeverDurable
<1>2. Init => MarkInv
  BY InitMarked
<1>3. MarkInv /\ [Next]_vars => MarkInv'
  BY NextMarked
<1> QED BY <1>1, <1>2, <1>3, PTL DEF Spec

-----------------------------------------------------------------------------
(***************************************************************************)
(* Where nothing fails, a Connection keeps the promise of NestedTransaction *)
(* for every value of its constants: the savepoint frames of the session   *)
(* split into the levels that the Connection counts, and every call does   *)
(* to these levels what the abstract specification allows.                 *)
(***************************************************************************)

-----------------------------------------------------------------------------
(***************************************************************************)
(* How the savepoint frames of a session split into the levels of nested   *)
(* transactions, and what a savepoint, a write, a release and a rollback   *)
(* do to a split.  Savepoints are named by level, and one that is never    *)
(* released, or that survives a rollback to it, leaves a frame of an old   *)
(* name behind: a level is the frames from the latest savepoint of its     *)
(* name up to the next level's, whatever names are between.                *)
(***************************************************************************)

(* The writes of the frames from a to b, and the last frame of a level:    *)
(* the one before the savepoint of the next.                               *)
Held(tx, a, b) == UNION { tx[i].writes : i \in a .. b }
LastFrame(tx, st, p, n) == IF n = Len(st) THEN Len(tx) ELSE p[n + 1] - 1

(* The frames tx are those of the levels st, where p[n] is the frame of    *)
(* the savepoint that level n would roll back to.                          *)
Splits(tx, st, p) ==
  /\ p \in [1 .. Len(st) -> 1 .. Len(tx)]
  /\ (st = <<>>) <=> (tx = <<>>)
  /\ st # <<>> => p[1] = 1
  /\ \A n \in 1 .. Len(st) : tx[p[n]].sp = n
  /\ \A n \in 1 .. Len(st) : \A i \in 1 .. Len(tx) : tx[i].sp = n => i <= p[n]
  /\ \A m, n \in 1 .. Len(st) : m < n => p[m] < p[n]
  /\ \A n \in 1 .. Len(st) : st[n] = Held(tx, p[n], LastFrame(tx, st, p, n))

Split(tx, st) == \E p \in [1 .. Len(st) -> 1 .. Len(tx)] : Splits(tx, st, p)

(* What committing or rolling back a nested level leaves.                  *)
Below(st) == [n \in 1 .. Len(st) - 1 |-> st[n]]
Merged(st) == [Below(st) EXCEPT ![Len(st) - 1] = @ \cup st[Len(st)]]

Stacks == Seq(SUBSET Writes)

-----------------------------------------------------------------------------
(* The levels of the frames the session builds. *)

(* A function on 1 .. n is a sequence of length n.                        *)
LEMMA FunctionSeq ==
  ASSUME NEW S, NEW n \in Nat, NEW f \in [1 .. n -> S]
  PROVE  f \in Seq(S) /\ Len(f) = n
<1>1. f \in Seq(S)
  BY SeqDef
<1>2. Len(f) \in Nat /\ 1 .. Len(f) = 1 .. n
  BY <1>1, LenProperties
<1> QED BY <1>1, <1>2

(* A write is held by frames when one of them has it.                     *)
LEMMA HeldMember ==
  ASSUME NEW tx, NEW a, NEW b, NEW x
  PROVE  x \in Held(tx, a, b) <=> \E i \in a .. b : x \in tx[i].writes
BY DEF Held

(* No frames, no levels.                                                  *)
LEMMA SplitEmpty == Split(<<>>, <<>>)
<1> DEFINE p == [n \in 1 .. 0 |-> n]
<1>1. p \in [1 .. Len(<<>>) -> 1 .. Len(<<>>)]
  OBVIOUS
<1>2. Splits(<<>>, <<>>, p)
  BY <1>1 DEF Splits
<1> QED BY <1>1, <1>2 DEF Split

(* The frame of BEGIN is the first level, without writes.                 *)
LEMMA SplitFirst == Split(<<Mark(1)>>, <<{}>>)
<1> DEFINE p == [n \in 1 .. 1 |-> 1]
<1>1. Held(<<Mark(1)>>, 1, 1) = {}
  BY HeldMember DEF Mark
<1>2. Splits(<<Mark(1)>>, <<{}>>, p)
  BY <1>1 DEF Splits, LastFrame, Mark
<1> QED BY <1>2 DEF Split

(* A part of a sequence: its type, its length, its elements.              *)
LEMMA SubSeqFacts ==
  ASSUME NEW S, NEW t \in Seq(S), NEW m \in 1 .. Len(t) + 1, NEW n \in m - 1 .. Len(t)
  PROVE  /\ SubSeq(t, m, n) \in Seq(S)
         /\ Len(SubSeq(t, m, n)) = n - m + 1
         /\ \A j \in 1 .. n - m + 1 : SubSeq(t, m, n)[j] = t[m + j - 1]
OBVIOUS

(* The frames of a level that stays as it is. *)
LEMMA HeldSame ==
  ASSUME NEW tx, NEW u, NEW a \in Nat, NEW b \in Nat, \A i \in a .. b : u[i].writes = tx[i].writes
  PROVE  Held(u, a, b) = Held(tx, a, b)
<1>1. \A x : x \in Held(u, a, b) <=> x \in Held(tx, a, b)
  BY HeldMember
<1> QED BY <1>1

(* A savepoint opens a level: it is the last frame. *)
LEMMA SplitSavepoint ==
  ASSUME NEW tx \in Seq(Frame), NEW st \in Stacks, st # <<>>, Split(tx, st)
  PROVE  Split(Append(tx, Mark(Len(st) + 1)), Append(st, {}))
<1> DEFINE k == Len(st)
           u == Append(tx, Mark(k + 1))
           v == Append(st, {})
<1>1. PICK p \in [1 .. Len(st) -> 1 .. Len(tx)] : Splits(tx, st, p)
  BY DEF Split
<1> DEFINE q == [n \in 1 .. k + 1 |-> IF n <= k THEN p[n] ELSE Len(tx) + 1]
<1>2. k \in Nat /\ k # 0 /\ Len(tx) \in Nat
  BY DEF Stacks
<1>3. /\ Len(u) = Len(tx) + 1 /\ Len(v) = k + 1
      /\ \A i \in 1 .. Len(tx) : u[i] = tx[i]
      /\ u[Len(tx) + 1] = Mark(k + 1)
      /\ \A n \in 1 .. k : v[n] = st[n]
      /\ v[k + 1] = {}
      /\ u # <<>> /\ v # <<>>
  BY <1>2 DEF Stacks
<1>4. /\ q \in [1 .. Len(v) -> 1 .. Len(u)]
      /\ \A n \in 1 .. k : q[n] = p[n]
      /\ q[k + 1] = Len(tx) + 1
  BY <1>1, <1>2, <1>3
<1>5. /\ p[1] = 1
      /\ \A n \in 1 .. k : p[n] \in 1 .. Len(tx) /\ tx[p[n]].sp = n
      /\ \A n \in 1 .. k : \A i \in 1 .. Len(tx) : tx[i].sp = n => i <= p[n]
      /\ \A m, n \in 1 .. k : m < n => p[m] < p[n]
      /\ \A n \in 1 .. k : st[n] = Held(tx, p[n], LastFrame(tx, st, p, n))
  BY <1>1, <1>2 DEF Splits
<1>6. Mark(k + 1).sp = k + 1 /\ Mark(k + 1).writes = {}
  BY DEF Mark
<1>7. Splits(u, v, q)
  <2> HIDE DEF k, u, v, q
  <2>1. q[1] = 1
    BY <1>2, <1>4, <1>5
  <2>2. \A n \in 1 .. Len(v) : u[q[n]].sp = n
    <3>1. \A n \in 1 .. k : u[q[n]].sp = n
      BY <1>2, <1>3, <1>4, <1>5, ZenonT(60)
    <3>2. u[q[k + 1]].sp = k + 1
      BY <1>2, <1>3, <1>4, <1>6
    <3> QED BY <3>1, <3>2, <1>2, <1>3
  <2>3. \A n \in 1 .. Len(v) : \A i \in 1 .. Len(u) : u[i].sp = n => i <= q[n]
    <3>1. ASSUME NEW n \in 1 .. k, NEW i \in 1 .. Len(u), u[i].sp = n PROVE i <= q[n]
      <4>1. i # Len(tx) + 1
        BY <3>1, <1>2, <1>3, <1>6
      <4>2. i \in 1 .. Len(tx) /\ tx[i].sp = n
        BY <3>1, <4>1, <1>2, <1>3
      <4>3. i <= p[n]
        BY <4>2, <1>5
      <4> QED BY <4>3, <1>4
    <3>2. \A i \in 1 .. Len(u) : i <= q[k + 1]
      BY <1>2, <1>3, <1>4
    <3> QED BY <3>1, <3>2, <1>2, <1>3
  <2>4. \A m, n \in 1 .. Len(v) : m < n => q[m] < q[n]
    <3>1. \A n \in 1 .. k : q[n] < Len(tx) + 1
      BY <1>2, <1>4, <1>5
    <3>2. ASSUME NEW m \in 1 .. Len(v), NEW n \in 1 .. Len(v), m < n PROVE q[m] < q[n]
      <4>1. m \in 1 .. k /\ (n \in 1 .. k \/ n = k + 1)
        BY <3>2, <1>2, <1>3
      <4>2. CASE n \in 1 .. k
        BY <3>2, <4>1, <4>2, <1>4, <1>5
      <4>3. CASE n = k + 1
        BY <4>1, <4>3, <3>1, <1>4
      <4> QED BY <4>1, <4>2, <4>3
    <3> QED BY <3>2
  <2>5. ASSUME NEW n \in 1 .. Len(v) PROVE v[n] = Held(u, q[n], LastFrame(u, v, q, n))
    <3>1. CASE n = k + 1
      <4>1. LastFrame(u, v, q, n) = Len(tx) + 1 /\ q[n] = Len(tx) + 1
        BY <3>1, <1>3, <1>4 DEF LastFrame
      <4>2. Held(u, Len(tx) + 1, Len(tx) + 1) = {}
        BY <1>2, <1>3, <1>6, HeldMember
      <4> QED BY <3>1, <4>1, <4>2, <1>3
    <3>2. CASE n < k + 1
      <4>1. n \in 1 .. k /\ (n < k => n + 1 \in 1 .. k)
        BY <3>2, <1>2, <1>3
      <4>2. LastFrame(u, v, q, n) = LastFrame(tx, st, p, n) /\ LastFrame(tx, st, p, n) \in 0 .. Len(tx)
        <5>1. CASE n = k
          BY <5>1, <1>2, <1>3, <1>4 DEF LastFrame, k
        <5>2. CASE n < k
          <6>1. q[n + 1] = p[n + 1] /\ p[n + 1] \in 1 .. Len(tx)
            BY <5>2, <4>1, <1>4, <1>5
          <6> QED BY <5>2, <6>1, <4>1, <1>2, <1>3 DEF LastFrame, k
        <5> QED BY <4>1, <1>2, <5>1, <5>2
      <4>3. \A i \in p[n] .. LastFrame(tx, st, p, n) : u[i].writes = tx[i].writes
        BY <4>1, <4>2, <1>2, <1>3, <1>5
      <4>4. p[n] \in Nat /\ q[n] = p[n] /\ v[n] = st[n] /\ st[n] = Held(tx, p[n], LastFrame(tx, st, p, n))
        BY <4>1, <1>3, <1>4, <1>5
      <4>5. Held(u, p[n], LastFrame(tx, st, p, n)) = Held(tx, p[n], LastFrame(tx, st, p, n))
        <5>1. p[n] \in Nat /\ LastFrame(tx, st, p, n) \in Nat
          BY <4>2, <4>4, <1>2
        <5> QED BY <5>1, <4>3, HeldSame
      <4> QED BY <4>2, <4>4, <4>5
    <3> QED BY <3>1, <3>2, <1>2, <1>3
  <2> QED BY <2>1, <2>2, <2>3, <2>4, <2>5, <1>3, <1>4 DEF Splits
<1> QED BY <1>3, <1>4, <1>7 DEF Split

(* A write goes to the last frame, which is one of the innermost level's.  *)
LEMMA SplitWritten ==
  ASSUME NEW tx \in Seq(Frame), NEW st \in Stacks, st # <<>>, Split(tx, st), NEW w \in Writes
  PROVE  Split([tx EXCEPT ![Len(tx)].writes = @ \cup {w}],
               [st EXCEPT ![Len(st)] = @ \cup {w}])
<1> DEFINE k == Len(st)
           l == Len(tx)
           f == [tx[l] EXCEPT !.writes = @ \cup {w}]
           u == [tx EXCEPT ![l] = f]
           v == [st EXCEPT ![k] = @ \cup {w}]
<1>1. PICK p \in [1 .. Len(st) -> 1 .. Len(tx)] : Splits(tx, st, p)
  BY DEF Split
<1>2. k \in Nat /\ k # 0 /\ l \in Nat /\ tx # <<>> /\ l # 0
  BY <1>1 DEF Stacks, Splits
<1>3. /\ p[1] = 1
      /\ \A n \in 1 .. k : p[n] \in 1 .. l /\ tx[p[n]].sp = n
      /\ \A n \in 1 .. k : \A i \in 1 .. l : tx[i].sp = n => i <= p[n]
      /\ \A m, n \in 1 .. k : m < n => p[m] < p[n]
      /\ \A n \in 1 .. k : st[n] = Held(tx, p[n], LastFrame(tx, st, p, n))
  BY <1>1, <1>2 DEF Splits
<1>4. tx[l] \in Frame
  BY <1>2
<1>5. f.sp = tx[l].sp /\ f.writes = tx[l].writes \cup {w}
  BY <1>4 DEF Frame
<1>6. /\ Len(u) = l /\ u[l] = f
      /\ \A i \in 1 .. l : i # l => u[i] = tx[i]
      /\ \A i \in 1 .. l : u[i].sp = tx[i].sp
      /\ u # <<>>
  <2>1. f \in Frame
    BY <1>4 DEF Frame
  <2>2. u \in Seq(Frame) /\ Len(u) = l
    BY <1>2, <2>1, ExceptSeq
  <2> HIDE DEF f
  <2>3. l \in 1 .. l /\ \A i \in 1 .. l : u[i] = IF i = l THEN f ELSE tx[i]
    BY <1>2, <2>1, ExceptSeq
  <2> HIDE DEF u
  <2> QED BY <2>2, <2>3, <1>2, <1>5
<1>7. /\ Len(v) = k /\ v[k] = st[k] \cup {w}
      /\ \A n \in 1 .. k : n # k => v[n] = st[n]
      /\ v # <<>>
  BY <1>2 DEF Stacks
<1>8. Splits(u, v, p)
  <2> HIDE DEF k, l, u, v, f
  <2>1. ASSUME NEW n \in 1 .. k PROVE v[n] = Held(u, p[n], LastFrame(u, v, p, n))
    <3>1. CASE n = k
      <4>1. LastFrame(u, v, p, n) = l /\ LastFrame(tx, st, p, n) = l
        BY <3>1, <1>6, <1>7 DEF LastFrame, k, l
      <4>2. p[n] \in 1 .. l
        BY <1>3
      <4>3. \A x : x \in Held(u, p[n], l) <=> x \in Held(tx, p[n], l) \/ x = w
        <5>1. ASSUME NEW x PROVE x \in Held(u, p[n], l) <=> x \in Held(tx, p[n], l) \/ x = w
          <6>1. l \in p[n] .. l
            BY <4>2, <1>2
          <6>2. \A i \in p[n] .. l : i \in 1 .. l /\ (x \in u[i].writes <=> x \in tx[i].writes \/ (i = l /\ x = w))
            BY <4>2, <1>2, <1>5, <1>6
          <6> QED BY <6>1, <6>2, HeldMember
        <5> QED BY <5>1
      <4>4. st[n] = Held(tx, p[n], l)
        BY <4>1, <1>3
      <4> QED BY <3>1, <4>1, <4>3, <4>4, <1>7
    <3>2. CASE n < k
      <4>1. n + 1 \in 1 .. k /\ p[n] \in 1 .. l /\ p[n + 1] \in 1 .. l
        BY <3>2, <1>2, <1>3
      <4>2. LastFrame(u, v, p, n) = p[n + 1] - 1 /\ LastFrame(tx, st, p, n) = p[n + 1] - 1
        BY <3>2, <1>2, <1>7 DEF LastFrame, k
      <4>3. \A i \in p[n] .. p[n + 1] - 1 : u[i].writes = tx[i].writes
        BY <4>1, <1>2, <1>6
      <4>4. v[n] = st[n] /\ st[n] = Held(tx, p[n], p[n + 1] - 1)
        BY <3>2, <4>2, <1>2, <1>3, <1>7
      <4>5. Held(u, p[n], p[n + 1] - 1) = Held(tx, p[n], p[n + 1] - 1)
        <5>1. p[n] \in Nat /\ p[n + 1] - 1 \in Nat
          BY <4>1, <1>2
        <5> QED BY <5>1, <4>3, HeldSame
      <4> QED BY <4>2, <4>4, <4>5
    <3> QED BY <3>1, <3>2, <1>2
  <2>2. p \in [1 .. Len(v) -> 1 .. Len(u)]
    BY <1>6, <1>7 DEF k, l
  <2>3. \A n \in 1 .. Len(v) : u[p[n]].sp = n
    BY <1>3, <1>6, <1>7
  <2>4. \A n \in 1 .. Len(v) : \A i \in 1 .. Len(u) : u[i].sp = n => i <= p[n]
    BY <1>3, <1>6, <1>7
  <2> QED BY <2>1, <2>2, <2>3, <2>4, <1>3, <1>6, <1>7 DEF Splits
<1> QED BY <1>8, <1>6, <1>7 DEF Split

(* What a nested level leaves below it. *)
LEMMA BelowStack ==
  ASSUME NEW st \in Stacks, Len(st) > 1
  PROVE  /\ Below(st) \in Stacks /\ Merged(st) \in Stacks
         /\ Len(Below(st)) = Len(st) - 1 /\ Len(Merged(st)) = Len(st) - 1
         /\ \A n \in 1 .. Len(st) - 1 : Below(st)[n] = st[n]
         /\ \A n \in 1 .. Len(st) - 2 : Merged(st)[n] = st[n]
         /\ Merged(st)[Len(st) - 1] = st[Len(st) - 1] \cup st[Len(st)]
<1>1. Len(st) \in Nat /\ Len(st) - 1 \in 1 .. Len(st)
  BY DEF Stacks
<1>2. \A n \in 1 .. Len(st) : st[n] \in SUBSET Writes
  BY DEF Stacks
<1>3. /\ Below(st) \in [1 .. Len(st) - 1 -> SUBSET Writes]
      /\ \A n \in 1 .. Len(st) - 1 : Below(st)[n] = st[n]
  BY <1>1, <1>2 DEF Below
<1>4. st[Len(st) - 1] \cup st[Len(st)] \in SUBSET Writes
  BY <1>1, <1>2
<1>5. /\ Merged(st) \in [1 .. Len(st) - 1 -> SUBSET Writes]
      /\ Merged(st)[Len(st) - 1] = st[Len(st) - 1] \cup st[Len(st)]
      /\ \A n \in 1 .. Len(st) - 1 : n # Len(st) - 1 => Merged(st)[n] = st[n]
  BY <1>1, <1>3, <1>4 DEF Merged
<1>6. Len(st) - 1 \in Nat
  BY <1>1
<1>7. /\ Below(st) \in Stacks /\ Len(Below(st)) = Len(st) - 1
      /\ Merged(st) \in Stacks /\ Len(Merged(st)) = Len(st) - 1
  BY <1>3, <1>5, <1>6, FunctionSeq DEF Stacks
<1>8. \A n \in 1 .. Len(st) - 2 : n \in 1 .. Len(st) - 1 /\ n # Len(st) - 1
  BY <1>1
<1> QED BY <1>3, <1>5, <1>7, <1>8

(* What a split says, with the number of levels named. *)
LEMMA SplitFacts ==
  ASSUME NEW tx \in Seq(Frame), NEW st \in Stacks, st # <<>>,
         NEW p \in [1 .. Len(st) -> 1 .. Len(tx)], Splits(tx, st, p)
  PROVE  /\ Len(st) \in Nat /\ Len(st) # 0 /\ Len(tx) \in Nat /\ Len(tx) # 0 /\ tx # <<>>
         /\ p[1] = 1
         /\ \A n \in 1 .. Len(st) : p[n] \in 1 .. Len(tx) /\ tx[p[n]].sp = n
         /\ \A n \in 1 .. Len(st) : \A i \in 1 .. Len(tx) : tx[i].sp = n => i <= p[n]
         /\ \A m, n \in 1 .. Len(st) : m < n => p[m] < p[n]
         /\ \A n \in 1 .. Len(st) : st[n] = Held(tx, p[n], LastFrame(tx, st, p, n))
         /\ \A n \in 1 .. Len(st) : n < Len(st) =>
              LastFrame(tx, st, p, n) = p[n + 1] - 1 /\ p[n + 1] \in 1 .. Len(tx)
         /\ LastFrame(tx, st, p, Len(st)) = Len(tx)
<1>1. Len(st) \in Nat /\ Len(st) # 0 /\ Len(tx) \in Nat /\ Len(tx) # 0 /\ tx # <<>>
  BY DEF Stacks, Splits
<1>2. \A n \in 1 .. Len(st) : p[n] \in 1 .. Len(tx) /\ tx[p[n]].sp = n
  BY <1>1 DEF Splits
<1>3. \A n \in 1 .. Len(st) : n < Len(st) => n + 1 \in 1 .. Len(st) /\ n # Len(st)
  BY <1>1
<1>4. \A n \in 1 .. Len(st) : n < Len(st) =>
        LastFrame(tx, st, p, n) = p[n + 1] - 1 /\ p[n + 1] \in 1 .. Len(tx)
  BY <1>2, <1>3 DEF LastFrame
<1>5. LastFrame(tx, st, p, Len(st)) = Len(tx)
  BY DEF LastFrame
<1> QED BY <1>1, <1>2, <1>4, <1>5 DEF Splits

(* The latest savepoint of a level is the one the level would roll back to. *)
LEMMA SplitLast ==
  ASSUME NEW tx \in Seq(Frame), NEW st \in Stacks, st # <<>>,
         NEW p \in [1 .. Len(st) -> 1 .. Len(tx)], Splits(tx, st, p),
         NEW n \in 1 .. Len(st)
  PROVE  Last(tx, n) = {p[n]}
<1>1. p[n] \in 1 .. Len(tx) /\ tx[p[n]].sp = n
  BY SplitFacts
<1>2. \A i \in 1 .. Len(tx) : tx[i].sp = n => i <= p[n]
  BY SplitFacts
<1>3. DOMAIN tx = 1 .. Len(tx)
  OBVIOUS
<1>4. p[n] \in Last(tx, n)
  BY <1>1, <1>2, <1>3 DEF Last
<1>5. ASSUME NEW i \in Last(tx, n) PROVE i = p[n]
  <2>1. i \in 1 .. Len(tx) /\ tx[i].sp = n /\ p[n] <= i
    BY <1>1, <1>3 DEF Last
  <2>2. i <= p[n]
    BY <2>1, <1>2
  <2> QED BY <2>1, <2>2, <1>1
<1> QED BY <1>4, <1>5

(* The frames of the levels below the innermost one stay what they are for *)
(* them, whatever becomes of those of the innermost two.                   *)
KeepsBelow(tx, st, p, k, u, v) ==
  /\ p[k + 1] - 1 <= Len(u)
  /\ \A j \in 1 .. p[k + 1] - 1 : u[j].sp = tx[j].sp
  /\ \A j \in 1 .. p[k] - 1 : u[j].writes = tx[j].writes
  /\ \A j \in 1 .. Len(u) : p[k + 1] <= j => u[j].sp \notin 1 .. k
  /\ Len(v) = k
  /\ \A n \in 1 .. k - 1 : v[n] = st[n]
  /\ v[k] = Held(u, p[k], Len(u))

(* A split of the levels below the innermost one, from what is kept.      *)
LEMMA SplitBelow ==
  ASSUME NEW tx \in Seq(Frame), NEW st \in Stacks, Len(st) > 1,
         NEW p \in [1 .. Len(st) -> 1 .. Len(tx)], Splits(tx, st, p),
         NEW k \in Nat, k + 1 = Len(st),
         NEW u \in Seq(Frame), NEW v \in Stacks, KeepsBelow(tx, st, p, k, u, v)
  PROVE  Split(u, v)
<1>0. /\ p[k + 1] - 1 <= Len(u)
      /\ \A j \in 1 .. p[k + 1] - 1 : u[j].sp = tx[j].sp
      /\ \A j \in 1 .. p[k] - 1 : u[j].writes = tx[j].writes
      /\ \A j \in 1 .. Len(u) : p[k + 1] <= j => u[j].sp \notin 1 .. k
      /\ Len(v) = k
      /\ \A n \in 1 .. k - 1 : v[n] = st[n]
      /\ v[k] = Held(u, p[k], Len(u))
  BY DEF KeepsBelow
<1>1. st # <<>> /\ k # 0 /\ v # <<>>
  BY <1>0 DEF Stacks
<1>2. /\ Len(tx) \in Nat /\ Len(u) \in Nat
      /\ p[1] = 1
      /\ \A n \in 1 .. k + 1 : p[n] \in 1 .. Len(tx) /\ tx[p[n]].sp = n
      /\ \A n \in 1 .. k + 1 : \A i \in 1 .. Len(tx) : tx[i].sp = n => i <= p[n]
      /\ \A m, n \in 1 .. k + 1 : m < n => p[m] < p[n]
      /\ \A n \in 1 .. k + 1 : st[n] = Held(tx, p[n], LastFrame(tx, st, p, n))
  <2>1. /\ Len(tx) \in Nat
        /\ p[1] = 1
        /\ \A n \in 1 .. Len(st) : p[n] \in 1 .. Len(tx) /\ tx[p[n]].sp = n
        /\ \A n \in 1 .. Len(st) : \A i \in 1 .. Len(tx) : tx[i].sp = n => i <= p[n]
        /\ \A m, n \in 1 .. Len(st) : m < n => p[m] < p[n]
        /\ \A n \in 1 .. Len(st) : st[n] = Held(tx, p[n], LastFrame(tx, st, p, n))
    BY <1>1, SplitFacts, ZenonT(60)
  <2>2. Len(st) = k + 1 /\ Len(u) \in Nat
    OBVIOUS
  <2> QED BY <2>1, <2>2
<1>3. \A n \in 1 .. k : LastFrame(tx, st, p, n) = p[n + 1] - 1 /\ p[n + 1] \in 1 .. Len(tx)
  <2>1. \A n \in 1 .. k : n \in 1 .. Len(st) /\ n < Len(st)
    OBVIOUS
  <2> QED BY <1>1, <2>1, SplitFacts
<1> DEFINE q == [n \in 1 .. k |-> p[n]]
<1>4. \A n \in 1 .. k : n \in 1 .. k + 1 /\ p[n] \in 1 .. p[k + 1] - 1 /\ p[n] \in 1 .. Len(u)
  <2>1. ASSUME NEW n \in 1 .. k PROVE n \in 1 .. k + 1 /\ k + 1 \in 1 .. k + 1 /\ n < k + 1
    OBVIOUS
  <2>2. ASSUME NEW n \in 1 .. k PROVE p[n] \in 1 .. Len(tx) /\ p[k + 1] \in 1 .. Len(tx) /\ p[n] < p[k + 1]
    BY <2>1, <1>2
  <2> QED BY <2>1, <2>2, <1>0, <1>2
<1>5. q \in [1 .. Len(v) -> 1 .. Len(u)] /\ \A n \in 1 .. k : q[n] = p[n]
  BY <1>0, <1>4
<1> HIDE DEF q
<1>6. \A n \in 1 .. k : u[q[n]].sp = n
  BY <1>0, <1>2, <1>4, <1>5, ZenonT(60)
<1>7. ASSUME NEW n \in 1 .. k, NEW i \in 1 .. Len(u), u[i].sp = n PROVE i <= q[n]
  <2>1. i < p[k + 1] /\ k + 1 \in 1 .. k + 1 /\ p[k + 1] \in 1 .. Len(tx)
    <3>1. k + 1 \in 1 .. k + 1
      OBVIOUS
    <3>2. p[k + 1] \in 1 .. Len(tx)
      BY <3>1, <1>2
    <3>3. ~ (p[k + 1] <= i)
      BY <1>0, <1>7
    <3> QED BY <3>1, <3>2, <3>3, <1>2
  <2>2. i \in 1 .. p[k + 1] - 1 /\ i \in 1 .. Len(tx)
    BY <2>1, <1>2
  <2>3. tx[i].sp = n
    BY <2>2, <1>0, <1>7
  <2> QED BY <2>2, <2>3, <1>2, <1>4, <1>5
<1>8. ASSUME NEW m \in 1 .. k, NEW n \in 1 .. k, m < n PROVE q[m] < q[n]
  BY <1>8, <1>2, <1>4, <1>5
<1>9. ASSUME NEW n \in 1 .. k PROVE v[n] = Held(u, q[n], LastFrame(u, v, q, n))
  <2>1. CASE n = k
    BY <2>1, <1>0, <1>5 DEF LastFrame
  <2>2. CASE n < k
    <3>1. n \in 1 .. k - 1 /\ n + 1 \in 1 .. k /\ n # k /\ k \in 1 .. k
      BY <2>2
    <3>2. LastFrame(u, v, q, n) = p[n + 1] - 1
      BY <3>1, <1>0, <1>5 DEF LastFrame
    <3>3. v[n] = st[n] /\ st[n] = Held(tx, p[n], p[n + 1] - 1)
      BY <3>1, <1>0, <1>2, <1>3, <1>4, SMTT(30)
    <3>4. p[n + 1] \in 1 .. Len(tx) /\ p[n] \in 1 .. Len(tx) /\ p[k] \in 1 .. Len(tx) /\ p[n + 1] <= p[k]
      <4>1. n + 1 = k \/ n + 1 < k
        BY <3>1
      <4>2. n + 1 \in 1 .. k + 1 /\ k \in 1 .. k + 1 /\ n \in 1 .. k + 1
        BY <3>1
      <4>3. p[n + 1] \in 1 .. Len(tx) /\ p[n] \in 1 .. Len(tx) /\ p[k] \in 1 .. Len(tx)
        BY <4>2, <1>2
      <4> QED BY <4>1, <4>2, <4>3, <1>2
    <3>5. \A j \in p[n] .. p[n + 1] - 1 : u[j].writes = tx[j].writes
      BY <3>4, <1>0, <1>2, SMTT(30)
    <3>6. Held(u, p[n], p[n + 1] - 1) = Held(tx, p[n], p[n + 1] - 1)
      <4>1. p[n] \in Nat /\ p[n + 1] - 1 \in Nat
        BY <3>4, <1>2
      <4> QED BY <4>1, <3>5, HeldSame
    <3> QED BY <3>1, <3>2, <3>3, <3>6, <1>5
  <2> QED BY <2>1, <2>2
<1>10. q[1] = 1 /\ u # <<>>
  <2>1. 1 \in 1 .. k
    BY <1>1
  <2>2. q[1] = 1 /\ 1 \in 1 .. Len(u)
    BY <2>1, <1>2, <1>4, <1>5
  <2> QED BY <2>2, <1>2
<1>11. Splits(u, v, q)
  BY <1>0, <1>1, <1>5, <1>6, <1>7, <1>8, <1>9, <1>10 DEF Splits
<1> QED BY <1>5, <1>11 DEF Split

(* The innermost two levels of a split, and the frames between them.       *)
LEMMA InnermostTwo ==
  ASSUME NEW tx \in Seq(Frame), NEW st \in Stacks, Len(st) > 1,
         NEW p \in [1 .. Len(st) -> 1 .. Len(tx)], Splits(tx, st, p),
         NEW k \in Nat, k + 1 = Len(st)
  PROVE  /\ Len(tx) \in Nat /\ k # 0
         /\ p[k] \in 1 .. Len(tx) /\ p[k + 1] \in 1 .. Len(tx) /\ p[k] < p[k + 1]
         /\ st[k] = Held(tx, p[k], p[k + 1] - 1)
         /\ st[k + 1] = Held(tx, p[k + 1], Len(tx))
         /\ \A j \in 1 .. Len(tx) : p[k + 1] <= j => tx[j].sp \notin 1 .. k
<1>1. st # <<>> /\ k # 0 /\ k \in 1 .. Len(st) /\ k + 1 \in 1 .. Len(st) /\ k < Len(st)
  BY DEF Stacks
<1>2. /\ Len(tx) \in Nat
      /\ \A n \in 1 .. Len(st) : p[n] \in 1 .. Len(tx)
      /\ \A n \in 1 .. Len(st) : \A i \in 1 .. Len(tx) : tx[i].sp = n => i <= p[n]
      /\ \A m, n \in 1 .. Len(st) : m < n => p[m] < p[n]
      /\ \A n \in 1 .. Len(st) : st[n] = Held(tx, p[n], LastFrame(tx, st, p, n))
  BY <1>1, SplitFacts
<1>3. /\ LastFrame(tx, st, p, k) = p[k + 1] - 1
      /\ LastFrame(tx, st, p, k + 1) = Len(tx)
  BY <1>1, SplitFacts
<1>4. ASSUME NEW j \in 1 .. Len(tx), p[k + 1] <= j, tx[j].sp \in 1 .. k PROVE FALSE
  <2> DEFINE n == tx[j].sp
  <2>1. n \in 1 .. Len(st) /\ n < k + 1
    BY <1>4
  <2>2. j <= p[n] /\ p[n] < p[k + 1] /\ p[n] \in 1 .. Len(tx) /\ p[k + 1] \in 1 .. Len(tx)
    BY <2>1, <1>1, <1>2
  <2> QED BY <2>2, <1>2, <1>4
<1> QED BY <1>1, <1>2, <1>3, <1>4

(* Without releasing its savepoint, a nested level that is committed is    *)
(* one with the level below.                                               *)
LEMMA SplitMerged ==
  ASSUME NEW tx \in Seq(Frame), NEW st \in Stacks, Len(st) > 1, Split(tx, st)
  PROVE  Split(tx, Merged(st))
<1>1. PICK p \in [1 .. Len(st) -> 1 .. Len(tx)] : Splits(tx, st, p)
  BY DEF Split
<1>2. PICK k \in Nat : k + 1 = Len(st)
  <2>1. Len(st) - 1 \in Nat /\ (Len(st) - 1) + 1 = Len(st)
    BY DEF Stacks
  <2> QED BY <2>1
<1>3. /\ Len(tx) \in Nat /\ k # 0
      /\ p[k] \in 1 .. Len(tx) /\ p[k + 1] \in 1 .. Len(tx) /\ p[k] < p[k + 1]
      /\ st[k] = Held(tx, p[k], p[k + 1] - 1)
      /\ st[k + 1] = Held(tx, p[k + 1], Len(tx))
      /\ \A j \in 1 .. Len(tx) : p[k + 1] <= j => tx[j].sp \notin 1 .. k
  BY <1>1, <1>2, InnermostTwo, Zenon
<1>4. /\ Merged(st) \in Stacks /\ Len(Merged(st)) = k
      /\ \A n \in 1 .. k - 1 : Merged(st)[n] = st[n]
      /\ Merged(st)[k] = st[k] \cup st[k + 1]
  <2>1. Len(st) - 1 = k /\ Len(st) - 2 = k - 1
    BY <1>2
  <2> QED BY <2>1, <1>2, BelowStack
<1>5. \A x : x \in Held(tx, p[k], Len(tx))
             <=> x \in Held(tx, p[k], p[k + 1] - 1) \/ x \in Held(tx, p[k + 1], Len(tx))
  <2>1. \A i : i \in p[k] .. Len(tx) <=> i \in p[k] .. p[k + 1] - 1 \/ i \in p[k + 1] .. Len(tx)
    BY <1>3
  <2> QED BY <2>1, HeldMember
<1>6. Merged(st)[k] = Held(tx, p[k], Len(tx))
  BY <1>3, <1>4, <1>5
<1>7. p[k + 1] - 1 <= Len(tx)
  BY <1>3
<1>8. KeepsBelow(tx, st, p, k, tx, Merged(st))
  BY <1>3, <1>4, <1>6, <1>7 DEF KeepsBelow
<1> QED BY <1>1, <1>2, <1>4, <1>8, SplitBelow

(* A rollback to the savepoint of the innermost level drops its frames and *)
(* leaves the savepoint, without writes, to the level below.               *)
LEMMA SplitRolledBack ==
  ASSUME NEW tx \in Seq(Frame), NEW st \in Stacks, Len(st) > 1, Split(tx, st),
         NEW i \in Last(tx, Len(st))
  PROVE  LET u == Append(SubSeq(tx, 1, i - 1), Mark(Len(st)))
         IN  u \in Seq(Frame) /\ u # <<>> /\ Split(u, Below(st))
<1> DEFINE b == SubSeq(tx, 1, i - 1)
           u == Append(b, Mark(Len(st)))
<1>1. PICK p \in [1 .. Len(st) -> 1 .. Len(tx)] : Splits(tx, st, p)
  BY DEF Split
<1>2. PICK k \in Nat : k + 1 = Len(st)
  <2>1. Len(st) - 1 \in Nat /\ (Len(st) - 1) + 1 = Len(st)
    BY DEF Stacks
  <2> QED BY <2>1
<1>3. /\ Len(tx) \in Nat /\ k # 0
      /\ p[k] \in 1 .. Len(tx) /\ p[k + 1] \in 1 .. Len(tx) /\ p[k] < p[k + 1]
      /\ st[k] = Held(tx, p[k], p[k + 1] - 1)
  BY <1>1, <1>2, InnermostTwo, SMTT(30)
<1>4. i = p[k + 1]
  <2>1. st # <<>> /\ k + 1 \in 1 .. Len(st)
    BY <1>2 DEF Stacks
  <2> QED BY <2>1, <1>1, <1>2, SplitLast
<1>5. /\ Below(st) \in Stacks /\ Len(Below(st)) = k
      /\ \A n \in 1 .. k : Below(st)[n] = st[n]
  <2>1. Len(st) - 1 = k
    BY <1>2
  <2> QED BY <2>1, <1>2, BelowStack
<1>6. b \in Seq(Frame) /\ Len(b) = i - 1 /\ \A j \in 1 .. i - 1 : b[j] = tx[j]
  BY <1>3, <1>4
<1>i. i \in Nat /\ (i - 1) + 1 = i /\ p[k] \in Nat /\ p[k] < i
  BY <1>3, <1>4
<1>7. Mark(k + 1) \in Frame /\ Mark(k + 1).sp = k + 1 /\ Mark(k + 1).writes = {}
  BY MarkType DEF Mark
<1> HIDE DEF b
<1>8. /\ u \in Seq(Frame) /\ u # <<>> /\ Len(u) = i
      /\ \A j \in 1 .. i - 1 : u[j] = tx[j]
      /\ u[i] = Mark(k + 1)
  <2>1. u = Append(b, Mark(k + 1))
    BY <1>2
  <2>2. Len(u) = (i - 1) + 1 /\ \A j \in 1 .. i - 1 : u[j] = b[j]
    BY <2>1, <1>6, <1>7, AppendProperties
  <2>3. u \in Seq(Frame) /\ u # <<>> /\ u[(i - 1) + 1] = Mark(k + 1)
    BY <2>1, <1>6, <1>7, AppendProperties
  <2> QED BY <2>2, <2>3, <1>i, <1>6
<1> HIDE DEF u
<1>9. Below(st)[k] = Held(u, p[k], Len(u))
  <2>1. \A x : x \in Held(u, p[k], i) <=> x \in Held(tx, p[k], i - 1)
    <3>1. \A j : j \in p[k] .. i <=> j \in p[k] .. i - 1 \/ j = i
      BY <1>3, <1>4
    <3>2. \A j \in p[k] .. i - 1 : u[j] = tx[j]
      BY <1>3, <1>4, <1>8
    <3>3. u[i].writes = {}
      BY <1>7, <1>8
    <3> QED BY <3>1, <3>2, <3>3, HeldMember
  <2>2. k \in 1 .. k
    BY <1>3
  <2>3. Held(u, p[k], i) = Held(tx, p[k], i - 1)
    BY <2>1
  <2> QED BY <2>2, <2>3, <1>3, <1>4, <1>5, <1>8
<1>10. KeepsBelow(tx, st, p, k, u, Below(st))
  <2>1. p[k + 1] - 1 <= Len(u)
    BY <1>3, <1>4, <1>8
  <2>2. \A j \in 1 .. p[k + 1] - 1 : u[j].sp = tx[j].sp
    BY <1>4, <1>8
  <2>3. \A j \in 1 .. p[k] - 1 : u[j].writes = tx[j].writes
    <3>1. \A j \in 1 .. p[k] - 1 : j \in 1 .. i - 1
      BY <1>i
    <3> QED BY <3>1, <1>8
  <2>4. ASSUME NEW j \in 1 .. Len(u), p[k + 1] <= j PROVE u[j].sp \notin 1 .. k
    <3>1. j = i
      BY <2>4, <1>3, <1>4, <1>8
    <3> QED BY <3>1, <1>7, <1>8
  <2>5. \A n \in 1 .. k - 1 : Below(st)[n] = st[n]
    BY <1>5
  <2> QED BY <2>1, <2>2, <2>3, <2>4, <2>5, <1>5, <1>9 DEF KeepsBelow
<1>11. Split(u, Below(st))
  BY <1>1, <1>2, <1>5, <1>8, <1>10, SplitBelow
<1> QED BY <1>8, <1>11, <1>2 DEF u, b

(* Releasing the savepoint of the innermost level hands its writes to the  *)
(* frame before it.                                                        *)
LEMMA SplitReleased ==
  ASSUME NEW tx \in Seq(Frame), NEW st \in Stacks, Len(st) > 1, Split(tx, st),
         NEW i \in Last(tx, Len(st))
  PROVE  LET f == [sp |-> tx[i - 1].sp,
                   writes |-> tx[i - 1].writes \cup Pending(SubSeq(tx, i, Len(tx)))]
             u == Append(SubSeq(tx, 1, i - 2), f)
         IN  i # 1 /\ u \in Seq(Frame) /\ u # <<>> /\ Split(u, Merged(st))
<1> DEFINE b == SubSeq(tx, 1, i - 2)
           e == SubSeq(tx, i, Len(tx))
           f == [sp |-> tx[i - 1].sp, writes |-> tx[i - 1].writes \cup Pending(e)]
           u == Append(b, f)
<1>1. PICK p \in [1 .. Len(st) -> 1 .. Len(tx)] : Splits(tx, st, p)
  BY DEF Split
<1>2. PICK k \in Nat : k + 1 = Len(st)
  <2>1. Len(st) - 1 \in Nat /\ (Len(st) - 1) + 1 = Len(st)
    BY DEF Stacks
  <2> QED BY <2>1
<1>3. /\ Len(tx) \in Nat /\ k # 0
      /\ p[k] \in 1 .. Len(tx) /\ p[k + 1] \in 1 .. Len(tx) /\ p[k] < p[k + 1]
      /\ st[k] = Held(tx, p[k], p[k + 1] - 1)
      /\ st[k + 1] = Held(tx, p[k + 1], Len(tx))
  BY <1>1, <1>2, InnermostTwo
<1>4. i = p[k + 1] /\ i # 1 /\ i \in 1 .. Len(tx) /\ i - 1 \in 1 .. Len(tx)
  <2>1. st # <<>> /\ k + 1 \in 1 .. Len(st)
    BY <1>2 DEF Stacks
  <2>2. i = p[k + 1]
    BY <2>1, <1>1, <1>2, SplitLast
  <2> QED BY <2>2, <1>3
<1>5. /\ Merged(st) \in Stacks /\ Len(Merged(st)) = k
      /\ \A n \in 1 .. k - 1 : Merged(st)[n] = st[n]
      /\ Merged(st)[k] = st[k] \cup st[k + 1]
  <2>1. Len(st) - 1 = k /\ Len(st) - 2 = k - 1
    BY <1>2
  <2> QED BY <2>1, <1>2, BelowStack
<1>6. /\ b \in Seq(Frame) /\ Len(b) = i - 2 /\ \A j \in 1 .. i - 2 : b[j] = tx[j]
      /\ e \in Seq(Frame) /\ Len(e) = Len(tx) - i + 1
      /\ \A j \in 1 .. Len(e) : e[j] = tx[i + j - 1]
  <2>1. 1 \in 1 .. Len(tx) + 1 /\ i - 2 \in 1 - 1 .. Len(tx) /\ (i - 2) - 1 + 1 = i - 2
    BY <1>3, <1>4
  <2>2. b \in Seq(Frame) /\ Len(b) = i - 2 /\ \A j \in 1 .. i - 2 : b[j] = tx[1 + j - 1]
    BY <2>1, SubSeqFacts
  <2>3. \A j \in 1 .. i - 2 : 1 + j - 1 = j
    BY <1>4
  <2>4. i \in 1 .. Len(tx) + 1 /\ Len(tx) \in i - 1 .. Len(tx)
    BY <1>3, <1>4
  <2>5. /\ e \in Seq(Frame) /\ Len(e) = Len(tx) - i + 1
        /\ \A j \in 1 .. Len(tx) - i + 1 : e[j] = tx[i + j - 1]
    BY <2>4, SubSeqFacts
  <2> QED BY <2>2, <2>3, <2>5
<1>i. /\ i \in Nat /\ i - 2 \in Nat /\ i - 1 \in Nat /\ (i - 2) + 1 = i - 1 /\ p[k] \in Nat
      /\ p[k] < i /\ Len(tx) - i + 1 \in Nat
  BY <1>3, <1>4, SMTT(30)
<1> HIDE DEF b, e
<1>7. \A x : x \in Pending(e) <=> x \in Held(tx, i, Len(tx))
  <2>1. ASSUME NEW x, x \in Pending(e) PROVE x \in Held(tx, i, Len(tx))
    <3>1. PICK j \in 1 .. Len(e) : x \in e[j].writes
      BY <2>1, <1>6 DEF Pending
    <3>2. j \in 1 .. Len(tx) - i + 1
      BY <1>6
    <3>3. i + j - 1 \in i .. Len(tx) /\ x \in tx[i + j - 1].writes
      BY <3>1, <3>2, <1>i, <1>3, <1>6, SMTT(30)
    <3> QED BY <3>3, HeldMember
  <2>2. ASSUME NEW x, x \in Held(tx, i, Len(tx)) PROVE x \in Pending(e)
    <3>1. PICK m \in i .. Len(tx) : x \in tx[m].writes
      BY <2>2, HeldMember
    <3>2. m - i + 1 \in 1 .. Len(e) /\ i + (m - i + 1) - 1 = m
      <4>1. m - i + 1 \in 1 .. Len(tx) - i + 1
        BY <1>i, <1>3
      <4> QED BY <4>1, <1>i, <1>6, SMTT(30)
    <3>3. x \in e[m - i + 1].writes
      BY <3>1, <3>2, <1>6
    <3> QED BY <3>2, <3>3, <1>6 DEF Pending
  <2> QED BY <2>1, <2>2
<1>8. f \in Frame /\ f.sp = tx[i - 1].sp /\ f.writes = tx[i - 1].writes \cup Pending(e)
  <2>1. tx[i - 1] \in Frame /\ Pending(e) \in SUBSET Writes
    BY <1>4, <1>6, PendingType
  <2> QED BY <2>1 DEF Frame
<1> HIDE DEF f
<1>9. /\ u \in Seq(Frame) /\ u # <<>> /\ Len(u) = i - 1
      /\ \A j \in 1 .. i - 2 : u[j] = tx[j]
      /\ u[i - 1] = f
  <2>1. Len(u) = (i - 2) + 1 /\ \A j \in 1 .. i - 2 : u[j] = b[j]
    BY <1>6, <1>8, AppendProperties
  <2>2. u \in Seq(Frame) /\ u # <<>> /\ u[(i - 2) + 1] = f
    BY <1>6, <1>8, AppendProperties
  <2> QED BY <2>1, <2>2, <1>i, <1>6
<1> HIDE DEF u
<1>10. Merged(st)[k] = Held(u, p[k], Len(u))
  <2>1. \A x : x \in Held(u, p[k], i - 1)
               <=> x \in Held(tx, p[k], i - 1) \/ x \in Held(tx, i, Len(tx))
    <3>1. \A j : j \in p[k] .. i - 1 <=> j \in p[k] .. i - 2 \/ j = i - 1
      BY <1>3, <1>4, SMTT(30)
    <3>2. \A j \in p[k] .. i - 2 : u[j] = tx[j]
      BY <1>3, <1>4, <1>9, SMTT(30)
    <3>3. u[i - 1].writes = tx[i - 1].writes \cup Pending(e)
      BY <1>8, <1>9
    <3> QED BY <3>1, <3>2, <3>3, <1>7, HeldMember, SMTT(30)
  <2> QED BY <2>1, <1>3, <1>4, <1>5, <1>9
<1>11. KeepsBelow(tx, st, p, k, u, Merged(st))
  <2>1. p[k + 1] - 1 <= Len(u)
    BY <1>3, <1>4, <1>9
  <2>2. \A j \in 1 .. p[k + 1] - 1 : u[j].sp = tx[j].sp
    <3>1. \A j \in 1 .. i - 1 : j \in 1 .. i - 2 \/ j = i - 1
      BY <1>4
    <3> QED BY <3>1, <1>4, <1>8, <1>9
  <2>3. \A j \in 1 .. p[k] - 1 : u[j].writes = tx[j].writes
    <3>1. \A j \in 1 .. p[k] - 1 : j \in 1 .. i - 2
      BY <1>3, <1>4
    <3> QED BY <3>1, <1>9
  <2>4. \A j \in 1 .. Len(u) : ~ (p[k + 1] <= j)
    BY <1>3, <1>4, <1>9
  <2> QED BY <2>1, <2>2, <2>3, <2>4, <1>5, <1>10 DEF KeepsBelow
<1>12. Split(u, Merged(st))
  BY <1>1, <1>2, <1>5, <1>9, <1>11, SplitBelow
<1> QED BY <1>4, <1>9, <1>12 DEF u, b, e, f

-----------------------------------------------------------------------------
(* What Connection calls Levels are the levels of a split. *)

LevelIn(s, i) ==
  CHOOSE n \in 1 .. s.level :
    /\ \E k \in Last(s.tx, n) : k <= i
    /\ n < s.level => \A k \in Last(s.tx, n + 1) : i < k

LevelsIn(s) ==
  [ n \in 1 .. s.level |->
      UNION { s.tx[i].writes : i \in { j \in DOMAIN s.tx : LevelIn(s, j) = n } } ]

(* A nonempty set of numbers up to k has a greatest one.                  *)
LEMMA MaxIn ==
  ASSUME NEW k \in Nat, NEW S \in SUBSET (1 .. k), S # {}
  PROVE  \E m \in S : \A x \in S : x <= m
<1> DEFINE T == { n \in Nat : \E x \in S : n + x = k }
           R == OpToRel(<, Nat)
<1>1. T \in SUBSET Nat /\ T # {}
  <2>1. PICK x \in S : TRUE
    OBVIOUS
  <2>2. k - x \in Nat /\ (k - x) + x = k
    OBVIOUS
  <2> QED BY <2>2
<1>2. IsWellFoundedOn(R, Nat)
  BY NatLessThanWellFounded, Zenon
<1>3. R = {p \in Nat \X Nat : p[1] < p[2]}
  BY DEF OpToRel
<1> HIDE DEF R, T
<1>4. PICK y \in T : \A x \in T : <<x, y>> \notin R
  BY <1>1, <1>2, WFMin, Zenon
<1>5. \A x \in T : y <= x
  <2> SUFFICES ASSUME NEW x \in T, x < y PROVE FALSE
    BY <1>1
  <2>1. <<x, y>> \in R
    BY <1>1, <1>3
  <2> QED BY <1>4, <2>1
<1>6. PICK m \in S : y + m = k
  BY DEF T
<1>7. ASSUME NEW x \in S PROVE x <= m
  <2>1. k - x \in T
    BY DEF T
  <2>2. y <= k - x /\ y \in Nat
    BY <2>1, <1>1, <1>5
  <2> QED BY <2>2, <1>6
<1> QED BY <1>6, <1>7

(* Every frame belongs to exactly one level. *)
LEMMA FrameLevel ==
  ASSUME NEW tx \in Seq(Frame), NEW st \in Stacks, st # <<>>,
         NEW p \in [1 .. Len(st) -> 1 .. Len(tx)], Splits(tx, st, p),
         NEW i \in 1 .. Len(tx)
  PROVE  /\ \E n \in 1 .. Len(st) : p[n] <= i /\ i <= LastFrame(tx, st, p, n)
         /\ \A m, n \in 1 .. Len(st) :
              /\ p[m] <= i /\ i <= LastFrame(tx, st, p, m)
              /\ p[n] <= i /\ i <= LastFrame(tx, st, p, n)
              => m = n
<1> DEFINE k == Len(st)
           S == { n \in 1 .. k : p[n] <= i }
<1>1. /\ k \in Nat /\ k # 0 /\ Len(tx) \in Nat
      /\ p[1] = 1
      /\ \A n \in 1 .. k : p[n] \in 1 .. Len(tx)
      /\ \A m, n \in 1 .. k : m < n => p[m] < p[n]
      /\ \A n \in 1 .. k : n < k =>
           LastFrame(tx, st, p, n) = p[n + 1] - 1 /\ p[n + 1] \in 1 .. Len(tx)
      /\ LastFrame(tx, st, p, k) = Len(tx)
  BY SplitFacts
<1> HIDE DEF k
<1>2. PICK n \in S : \A x \in S : x <= n
  <2>1. 1 \in S /\ S \in SUBSET (1 .. k)
    BY <1>1
  <2> QED BY <2>1, <1>1, MaxIn
<1>3. i <= LastFrame(tx, st, p, n)
  <2>1. CASE n = k
    BY <2>1, <1>1
  <2>2. CASE n < k
    <3>1. n + 1 \in 1 .. k /\ n + 1 \notin S
      BY <2>2, <1>1, <1>2
    <3> QED BY <3>1, <2>2, <1>1, <1>2
  <2> QED BY <2>1, <2>2, <1>1, <1>2
<1>4. ASSUME NEW m \in 1 .. k, NEW l \in 1 .. k, m < l, p[l] <= i, i <= LastFrame(tx, st, p, m)
      PROVE  FALSE
  <2>1. m < k /\ m + 1 \in 1 .. k /\ (m + 1 = l \/ m + 1 < l)
    BY <1>1, <1>4
  <2>2. LastFrame(tx, st, p, m) = p[m + 1] - 1
    BY <2>1, <1>1
  <2>3. p[m + 1] <= p[l] /\ p[l] \in 1 .. Len(tx) /\ p[m + 1] \in 1 .. Len(tx)
    BY <2>1, <1>1
  <2> QED BY <2>2, <2>3, <1>1, <1>4, SMTT(30)
<1>5. \A m, l \in 1 .. k : m < l \/ m = l \/ l < m
  BY <1>1
<1> QED BY <1>2, <1>3, <1>4, <1>5 DEF k

(* The levels a split finds are the ones Connection defines by its frames. *)
LEMMA LevelsSplit ==
  ASSUME NEW s \in State, NEW st \in Stacks, s.level = Len(st), Split(s.tx, st)
  PROVE  LevelsIn(s) = st
<1>1. PICK tx \in Seq(Frame), k \in Nat : tx = s.tx /\ k = s.level /\ k = Len(st)
  BY DEF State
<1>d. DOMAIN tx = 1 .. Len(tx) /\ Len(tx) \in Nat
  OBVIOUS
<1>2. CASE st = <<>>
  <2>1. LevelsIn(s) \in [1 .. 0 -> SUBSET Writes]
    <3>1. s.level = 0
      BY <1>2
    <3> QED BY <3>1 DEF LevelsIn
  <2>2. LevelsIn(s) \in Stacks /\ Len(LevelsIn(s)) = 0
    BY <2>1, FunctionSeq DEF Stacks
  <2> QED BY <2>2, <1>2, EmptySeq DEF Stacks
<1>3. CASE st # <<>>
  <2>1. PICK p \in [1 .. Len(st) -> 1 .. Len(tx)] : Splits(tx, st, p)
    BY <1>1 DEF Split
  <2>2. /\ k # 0 /\ Len(tx) \in Nat
        /\ \A n \in 1 .. k : p[n] \in 1 .. Len(tx)
        /\ \A n \in 1 .. k : st[n] = Held(tx, p[n], LastFrame(tx, st, p, n))
        /\ \A n \in 1 .. k : n < k =>
             LastFrame(tx, st, p, n) = p[n + 1] - 1 /\ p[n + 1] \in 1 .. Len(tx)
        /\ LastFrame(tx, st, p, k) = Len(tx)
    BY <1>1, <1>3, <2>1, SplitFacts
  <2>3. ASSUME NEW n \in 1 .. k
        PROVE  LastFrame(tx, st, p, n) \in Nat /\ LastFrame(tx, st, p, n) <= Len(tx)
    <3>1. CASE n < k
      <4>1. LastFrame(tx, st, p, n) = p[n + 1] - 1 /\ p[n + 1] \in 1 .. Len(tx)
        BY <3>1, <2>2
      <4> QED BY <4>1, <2>2
    <3>2. CASE n = k
      BY <3>2, <2>2
    <3> QED BY <3>1, <3>2
  <2>4. \A n \in 1 .. k : Last(tx, n) = {p[n]}
    BY <1>1, <1>3, <2>1, SplitLast
  <2>5. ASSUME NEW i \in 1 .. Len(tx), NEW n \in 1 .. k
        PROVE  (p[n] <= i /\ i <= LastFrame(tx, st, p, n))
               <=> ((\E j \in Last(tx, n) : j <= i) /\ (n < k => \A j \in Last(tx, n + 1) : i < j))
    <3>1. (\E j \in Last(tx, n) : j <= i) <=> p[n] <= i
      BY <2>4
    <3>2. CASE n = k
      BY <3>1, <3>2, <2>2
    <3>3. CASE n < k
      <4>1. n + 1 \in 1 .. k
        BY <3>3
      <4>2. (\A j \in Last(tx, n + 1) : i < j) <=> i < p[n + 1]
        BY <4>1, <2>4
      <4>3. LastFrame(tx, st, p, n) = p[n + 1] - 1 /\ p[n + 1] \in 1 .. Len(tx)
        BY <3>3, <2>2
      <4>4. i <= LastFrame(tx, st, p, n) <=> i < p[n + 1]
        BY <4>3, <2>2
      <4> QED BY <3>1, <3>3, <4>2, <4>4
    <3> QED BY <3>2, <3>3
  <2>6. ASSUME NEW i \in 1 .. Len(tx)
        PROVE  /\ LevelIn(s, i) \in 1 .. k
               /\ p[LevelIn(s, i)] <= i /\ i <= LastFrame(tx, st, p, LevelIn(s, i))
               /\ \A n \in 1 .. k : p[n] <= i /\ i <= LastFrame(tx, st, p, n) => LevelIn(s, i) = n
    <3>1. /\ \E n \in 1 .. k : p[n] <= i /\ i <= LastFrame(tx, st, p, n)
          /\ \A m, n \in 1 .. k :
               (/\ p[m] <= i /\ i <= LastFrame(tx, st, p, m)
                /\ p[n] <= i /\ i <= LastFrame(tx, st, p, n))
               => m = n
      BY <1>1, <1>3, <2>1, FrameLevel
    <3>2. \E n \in 1 .. k :
            (\E j \in Last(tx, n) : j <= i) /\ (n < k => \A j \in Last(tx, n + 1) : i < j)
      BY <3>1, <2>5
    <3>3. LevelIn(s, i) = CHOOSE n \in 1 .. k :
            (\E j \in Last(tx, n) : j <= i) /\ (n < k => \A j \in Last(tx, n + 1) : i < j)
      BY <1>1 DEF LevelIn
    <3>4. /\ LevelIn(s, i) \in 1 .. k
          /\ \E j \in Last(tx, LevelIn(s, i)) : j <= i
          /\ LevelIn(s, i) < k => \A j \in Last(tx, LevelIn(s, i) + 1) : i < j
      BY <3>2, <3>3
    <3>5. p[LevelIn(s, i)] <= i /\ i <= LastFrame(tx, st, p, LevelIn(s, i))
      BY <3>4, <2>5
    <3> QED BY <3>1, <3>4, <3>5
  <2>7. ASSUME NEW n \in 1 .. k PROVE LevelsIn(s)[n] = st[n]
    <3>1. LastFrame(tx, st, p, n) \in Nat /\ LastFrame(tx, st, p, n) <= Len(tx) /\ p[n] \in 1 .. Len(tx)
      BY <2>2, <2>3
    <3>2. ASSUME NEW i \in 1 .. Len(tx)
          PROVE  LevelIn(s, i) = n <=> i \in p[n] .. LastFrame(tx, st, p, n)
      <4>1. LevelIn(s, i) = n <=> (p[n] <= i /\ i <= LastFrame(tx, st, p, n))
        BY <2>6
      <4> QED BY <4>1, <3>1
    <3>3. \A i \in p[n] .. LastFrame(tx, st, p, n) : i \in 1 .. Len(tx)
      BY <3>1, <2>2
    <3>4. { j \in DOMAIN tx : LevelIn(s, j) = n } = p[n] .. LastFrame(tx, st, p, n)
      BY <3>2, <3>3, <1>d
    <3>5. LevelsIn(s)[n] = UNION { tx[i].writes : i \in { j \in DOMAIN tx : LevelIn(s, j) = n } }
      BY <1>1 DEF LevelsIn
    <3> QED BY <3>4, <3>5, <2>2 DEF Held
  <2>8. \A n \in 1 .. k : st[n] \in SUBSET Writes
    BY <1>1 DEF Stacks
  <2>9. LevelsIn(s) \in [1 .. k -> SUBSET Writes]
    <3>1. LevelsIn(s) = [n \in 1 .. k |-> LevelsIn(s)[n]]
      BY <1>1 DEF LevelsIn
    <3> QED BY <3>1, <2>7, <2>8
  <2>10. LevelsIn(s) \in Stacks /\ Len(LevelsIn(s)) = k
    BY <2>9, FunctionSeq DEF Stacks
  <2> QED BY <2>7, <2>10, <1>1, SeqEqual DEF Stacks
<1> QED BY <1>2, <1>3

-----------------------------------------------------------------------------
(***************************************************************************)
(* The calls of a Connection on the levels.                                *)
(***************************************************************************)

(* Where the Connection, its adapter and the session keep in step: nothing *)
(* fails, and close() does not hand a session back with its transaction    *)
(* open, as mysql2's does.                                                 *)
NoFailures == Faults = {} /\ EndFailure = {} /\ Adapter # "mysql2"

(* A Connection, its adapter and its session in step with the levels st.   *)
Agrees(s, st) ==
  /\ s \in State /\ st \in Stacks
  /\ s.alive /\ ~ s.aborted
  /\ s.connected => Known(s)
  /\ ~ s.connected => s.level = 0
  /\ s.level # 0 <=> s.inTx
  /\ s.level = Len(st)
  /\ Split(s.tx, st)

(* What a write does to the levels: it belongs to the innermost.           *)
Wrote(st, w) == [st EXCEPT ![Len(st)] = @ \cup {w}]

(* Outcomes of a call that succeeds and leaves the levels st.              *)
Lands(os, st, d) ==
  \A o \in os : o \in Outcome /\ o.err = "none" /\ Agrees(o.s, st) /\ o.s.durable = d

-----------------------------------------------------------------------------
(* What nothing fails means for the session and for convertException(). *)

(* A statement succeeds.                                                  *)
LEMMA ExecSucceeds ==
  ASSUME NoFailures, NEW s, s.alive, ~ s.aborted, ~ Stale(s),
         NEW t \in State, NEW o \in Exec(s, t)
  PROVE  o \in Outcome /\ o.s = t /\ o.err = "none"
<1>1. Failures(s) = {}
  BY DEF NoFailures, Failures, Losses
<1>2. o = [s |-> t, err |-> "none"]
  BY <1>1 DEF Exec, Returns
<1> QED BY <1>2 DEF Outcome, Ends

(* When no call ends with an error, nothing is thrown and nothing converted. *)
LEMMA ConvertNothing ==
  ASSUME NEW os, \A o \in os : o.err = "none"
  PROVE  /\ Thrown(os) = {}
         /\ Resolved(os) = { o.s : o \in os }
         /\ Convert(os) = os
<1>1. \A o \in os : ~ (o.err \in {"denied", "lost"})
  OBVIOUS
<1>2. Convert(os) = { o : o \in os }
  BY <1>1 DEF Convert
<1> QED BY <1>2 DEF Thrown, Resolved

(* Levels and frames are there together. *)
LEMMA AgreesTx ==
  ASSUME NEW s, NEW st, Agrees(s, st)
  PROVE  /\ s.tx \in Seq(Frame) /\ s.level \in Nat /\ st \in Stacks
         /\ (s.tx = <<>>) <=> (s.level = 0)
         /\ (st = <<>>) <=> (s.level = 0)
         /\ s.inTx <=> s.tx # <<>>
         /\ ~ Stale(s)
<1>1. s.tx \in Seq(Frame) /\ s.level \in Nat /\ st \in Stacks
  BY DEF Agrees, State
<1>2. (st = <<>>) <=> (s.tx = <<>>)
  BY DEF Agrees, Split, Splits
<1>3. (st = <<>>) <=> (s.level = 0)
  BY <1>1 DEF Agrees, Stacks
<1>4. s.inTx \in BOOLEAN
  BY DEF Agrees, State
<1> QED BY <1>1, <1>2, <1>3, <1>4 DEF Agrees, Stale

-----------------------------------------------------------------------------
(* Beginning. *)

(* beginTransaction() adds a level without writes: BEGIN, or a savepoint. *)
LEMMA BeginConnectedLands ==
  ASSUME NoFailures, NEW s, NEW st, Agrees(s, st), s.connected
  PROVE  /\ Lands(BeginConnected(s), Append(st, {}), s.durable)
         /\ \A o \in BeginConnected(s) : o.s.autoCommit = s.autoCommit
<1> DEFINE up == [s EXCEPT !.level = @ + 1]
<1>1. /\ s \in State /\ s.level \in Nat /\ s.tx \in Seq(Frame) /\ st \in Stacks
      /\ s.level = Len(st) /\ Split(s.tx, st) /\ s.alive /\ ~ s.aborted /\ Known(s)
      /\ (s.tx = <<>>) <=> (s.level = 0)
      /\ (st = <<>>) <=> (s.level = 0)
      /\ s.inTx <=> s.tx # <<>>
  BY AgreesTx DEF Agrees
<1>2. /\ up \in State /\ up.level = s.level + 1 /\ up.tx = s.tx /\ up.alive /\ ~ up.aborted
      /\ up.inTx = s.inTx /\ up.durable = s.durable /\ up.connected
      /\ up.autoCommit = s.autoCommit /\ up.platform = s.platform
  BY <1>1 DEF State
<1>3. Known(up)
  BY <1>1, <1>2 DEF Known
<1> HIDE DEF up
<1>4. ~ Stale(up)
  BY <1>1, <1>2 DEF Stale
<1>5. Append(st, {}) \in Stacks /\ Len(Append(st, {})) = s.level + 1
  BY <1>1, AppendProperties DEF Stacks
<1>6. CASE s.level = 0
  <2>1. ~ s.inTx /\ up.tx = <<>> /\ up.level = 1 /\ st = <<>>
    BY <1>1, <1>2, <1>6
  <2>2. DriverBegin(up) = Exec(up, Begun(up))
    BY <2>1, <1>2, DriverAssumption
       DEF DriverBegin, SQLite3Begin, PgBegin, MSSQLBegin, NoFailures
  <2>3. /\ Begun(up) \in State /\ Begun(up).tx = <<Mark(1)>> /\ Begun(up).inTx
        /\ Begun(up).level = 1 /\ Begun(up).alive /\ ~ Begun(up).aborted
        /\ Begun(up).connected /\ Begun(up).platform = up.platform
        /\ Begun(up).durable = s.durable /\ Begun(up).autoCommit = s.autoCommit
    BY <2>1, <1>2, MarkType DEF Begun, State
  <2>4. Split(<<Mark(1)>>, Append(st, {}))
    <3>1. Append(<<>>, {}) = <<{}>>
      OBVIOUS
    <3> QED BY <3>1, <2>1, SplitFirst
  <2>5. Known(Begun(up))
    BY <2>3, <1>3 DEF Known
  <2>6. Agrees(Begun(up), Append(st, {}))
    BY <2>3, <2>4, <2>5, <1>5, <1>6 DEF Agrees
  <2>7. \A o \in DriverBegin(up) : o \in Outcome /\ o.s = Begun(up) /\ o.err = "none"
    BY <2>2, <2>3, <1>2, <1>4, ExecSucceeds
  <2>8. BeginConnected(s) = Convert(DriverBegin(up))
    BY <2>1 DEF BeginConnected, up
  <2>9. BeginConnected(s) = DriverBegin(up)
    BY <2>7, <2>8, ConvertNothing
  <2> QED BY <2>3, <2>6, <2>7, <2>9 DEF Lands
<1>7. CASE s.level # 0
  <2> DEFINE t == [up EXCEPT !.tx = Append(up.tx, Mark(up.level))]
  <2>1. Mark(up.level) \in Frame /\ up.tx # <<>> /\ st # <<>> /\ up.level = Len(st) + 1
    BY <1>1, <1>2, <1>7, MarkType
  <2>2. Append(up.tx, Mark(up.level)) \in Seq(Frame)
    BY <2>1, <1>1, <1>2, AppendProperties
  <2>3. /\ t \in State /\ t.tx = Append(up.tx, Mark(up.level)) /\ t.inTx = s.inTx
        /\ t.level = s.level + 1 /\ t.alive /\ ~ t.aborted /\ t.connected
        /\ t.platform = up.platform /\ t.durable = s.durable /\ t.autoCommit = s.autoCommit
    BY <2>2, <1>2 DEF State
  <2>4. Split(Append(up.tx, Mark(up.level)), Append(st, {}))
    BY <2>1, <1>1, <1>2, SplitSavepoint
  <2>5. ExecSavepoint(up, up.level) = Exec(up, t)
    BY <2>1 DEF ExecSavepoint
  <2> HIDE DEF t
  <2>6. Known(t) /\ s.level + 1 # 0 /\ s.inTx
    BY <2>3, <1>1, <1>3, <1>7 DEF Known
  <2>7. Agrees(t, Append(st, {}))
    BY <2>3, <2>4, <2>6, <1>5 DEF Agrees
  <2>8. \A o \in ExecSavepoint(up, up.level) : o \in Outcome /\ o.s = t /\ o.err = "none"
    BY <2>3, <2>5, <1>2, <1>4, ExecSucceeds
  <2>9. up.level # 1
    BY <1>1, <1>2, <1>7
  <2>10. BeginConnected(s) = Convert(CreateSavepoint(up))
    BY <2>9 DEF BeginConnected, up
  <2>11. CreateSavepoint(up) = ExecSavepoint(up, up.level)
    BY <2>8, <1>3, ConvertNothing DEF CreateSavepoint
  <2>12. BeginConnected(s) = ExecSavepoint(up, up.level)
    BY <2>8, <2>10, <2>11, ConvertNothing
  <2> QED BY <2>3, <2>7, <2>8, <2>12 DEF Lands
<1> QED BY <1>6, <1>7

(* connect() opens the implicit transaction when auto-commit is off.       *)
LEMMA ConnectLands ==
  ASSUME NoFailures, NEW s, NEW st, Agrees(s, st)
  PROVE  /\ s.connected => Connect(s) = Returns(s)
         /\ ~ s.connected => /\ st = <<>>
                             /\ Lands(Connect(s), IF s.autoCommit THEN <<>> ELSE <<{}>>, s.durable)
         /\ \A o \in Connect(s) : o.s.connected /\ o.err = "none"
<1>1. CASE s.connected
  BY <1>1 DEF Connect, Returns
<1>2. CASE ~ s.connected
  <2> DEFINE opened   == PerformConnect(s)
             resolved == UNION { ResolveDatabasePlatform(t) : t \in Resolved(opened) }
             begun    == UNION { BeginConnected(t) : t \in Resolved(resolved) }
             up       == [s EXCEPT !.connected = TRUE]
  <2>1. s \in State /\ s.level = 0 /\ st = <<>> /\ s.tx = <<>> /\ ~ s.inTx
    BY <1>2, AgreesTx DEF Agrees
  <2>2. /\ up \in State /\ up.level = 0 /\ up.tx = <<>> /\ ~ up.inTx /\ up.connected
        /\ up.alive /\ ~ up.aborted /\ up.durable = s.durable /\ up.autoCommit = s.autoCommit
    BY <2>1 DEF State, Agrees
  <2>3. opened = {[s |-> up, err |-> "none"]}
    BY DEF PerformConnect, NoFailures, Returns
  <2> HIDE DEF up, opened
  <2>4. Thrown(opened) = {} /\ Resolved(opened) = {up}
    <3>1. \A o \in opened : o.err = "none"
      BY <2>3
    <3>2. { o.s : o \in opened } = {up}
      BY <2>3
    <3> QED BY <3>1, <3>2, ConvertNothing
  <2> DEFINE r == [up EXCEPT !.platform = TRUE]
  <2>5. /\ r \in State /\ r.level = 0 /\ r.tx = <<>> /\ ~ r.inTx /\ r.connected
        /\ r.alive /\ ~ r.aborted /\ r.durable = s.durable /\ r.autoCommit = s.autoCommit
        /\ r.platform
    BY <2>2 DEF State
  <2> HIDE DEF r
  <2>6. Agrees(r, <<>>)
    BY <2>5, SplitEmpty DEF Agrees, Known, Stacks
  <2>7. \A o \in ResolveDatabasePlatform(up) : o \in Outcome /\ o.s = r /\ o.err = "none"
    <3>1. \A o \in Exec(up, r) : o \in Outcome /\ o.s = r /\ o.err = "none"
      <4>1. ~ Stale(up)
        BY <2>2 DEF Stale
      <4> QED BY <4>1, <2>2, <2>5, ExecSucceeds
    <3>2. \A o \in Returns(r) : o \in Outcome /\ o.s = r /\ o.err = "none"
      BY <2>5 DEF Returns, Outcome, Ends
    <3> QED BY <3>1, <3>2 DEF ResolveDatabasePlatform, r
  <2>8. \A o \in resolved : o \in Outcome /\ o.s = r /\ o.err = "none"
    BY <2>4, <2>7
  <2> HIDE DEF resolved
  <2>9. Thrown(resolved) = {} /\ \A t \in Resolved(resolved) : t = r
    BY <2>8 DEF Thrown, Resolved
  <2>10. /\ Lands(BeginConnected(r), <<{}>>, s.durable)
    <3>1. Append(<<>>, {}) = <<{}>>
      OBVIOUS
    <3> QED BY <3>1, <2>5, <2>6, BeginConnectedLands
  <2>11. Lands(begun, <<{}>>, s.durable)
    BY <2>9, <2>10 DEF Lands
  <2> HIDE DEF begun
  <2>12. ASSUME s.autoCommit PROVE Lands(Connect(s), <<>>, s.durable)
    <3>1. Lands(resolved, <<>>, s.durable)
      BY <2>5, <2>6, <2>8 DEF Lands
    <3>2. Connect(s) = Convert(resolved)
      <4>1. Connect(s) = Convert({} \cup resolved)
        BY <1>2, <2>4, <2>12 DEF Connect, opened, resolved
      <4>2. {} \cup resolved = resolved
        OBVIOUS
      <4> QED BY <4>1, <4>2
    <3> QED BY <3>1, <3>2, ConvertNothing DEF Lands
  <2>13. ASSUME ~ s.autoCommit PROVE Lands(Connect(s), <<{}>>, s.durable)
    <3>1. Connect(s) = Convert(begun)
      <4>1. Connect(s) = Convert(Thrown(opened) \cup (Thrown(resolved) \cup begun))
        BY <1>2, <2>13 DEF Connect, opened, resolved, begun
      <4>2. Thrown(opened) \cup (Thrown(resolved) \cup begun) = begun
        BY <2>4, <2>9
      <4> QED BY <4>1, <4>2
    <3> QED BY <3>1, <2>11, ConvertNothing DEF Lands
  <2>14. \A o \in Connect(s) : o.s.connected /\ o.err = "none"
    <3>1. ASSUME NEW o \in Connect(s), ~ s.autoCommit PROVE o.s.connected
      <4>1. Agrees(o.s, <<{}>>)
        BY <3>1, <2>13 DEF Lands
      <4> QED BY <4>1 DEF Agrees
    <3>2. ASSUME NEW o \in Connect(s), s.autoCommit PROVE o.s.connected
      <4>1. Connect(s) = Convert(Thrown(opened) \cup resolved)
        BY <1>2, <3>2 DEF Connect, opened, resolved
      <4>2. Convert(Thrown(opened) \cup resolved) = resolved
        BY <2>4, <2>8, ConvertNothing
      <4> QED BY <4>1, <4>2, <2>5, <2>8, <3>2
    <3> QED BY <3>1, <3>2, <2>12, <2>13 DEF Lands
  <2> QED BY <1>2, <2>1, <2>12, <2>13, <2>14
<1> QED BY <1>1, <1>2

(* With auto-commit off, the call that connects finds a level below its own. *)
LEMMA BeginTransactionLands ==
  ASSUME NoFailures, NEW s, NEW st, Agrees(s, st), NEW o \in BeginTransaction(s)
  PROVE  /\ o \in Outcome /\ o.err = "none" /\ o.s.durable = s.durable
         /\ Agrees(o.s, Append(st, {})) \/ (st = <<>> /\ Agrees(o.s, <<{}, {}>>))
<1>1. \A r \in Connect(s) : r.err = "none" /\ r.s.connected
  BY ConnectLands
<1>2. Thrown(Connect(s)) = {} /\ Resolved(Connect(s)) = { r.s : r \in Connect(s) }
  BY <1>1, ConvertNothing
<1>3. PICK r \in Connect(s) : o \in BeginConnected(r.s)
  BY <1>2 DEF BeginTransaction
<1>4. CASE s.connected
  <2>1. r.s = s
    BY <1>4, ConnectLands, ReturnsAndThrows
  <2> QED BY <2>1, <1>3, <1>4, BeginConnectedLands DEF Lands
<1>5. CASE ~ s.connected
  <2>1. st = <<>> /\ Agrees(r.s, IF s.autoCommit THEN <<>> ELSE <<{}>>) /\ r.s.durable = s.durable
    BY <1>5, ConnectLands DEF Lands
  <2>2. Append(<<{}>>, {}) = <<{}, {}>>
    <3>1. <<{}>> \in Seq({{}}) /\ <<{}, {}>> \in Seq({{}}) /\ {} \in {{}}
      OBVIOUS
    <3>2. /\ Append(<<{}>>, {}) \in Seq({{}}) /\ Len(Append(<<{}>>, {})) = 2
          /\ \A i \in 1 .. 2 : Append(<<{}>>, {})[i] = {}
      <4>1. /\ Append(<<{}>>, {}) \in Seq({{}}) /\ Len(Append(<<{}>>, {})) = 1 + 1
        BY <3>1, AppendProperties
      <4> QED BY <4>1
    <3>3. Len(<<{}, {}>>) = 2 /\ \A i \in 1 .. 2 : <<{}, {}>>[i] = {}
      OBVIOUS
    <3> QED BY <3>1, <3>2, <3>3, SeqEqual
  <2>3. CASE s.autoCommit
    BY <2>1, <2>3, <1>1, <1>3, BeginConnectedLands DEF Lands
  <2>4. CASE ~ s.autoCommit
    <3>1. Agrees(r.s, <<{}>>) /\ r.s.connected
      BY <2>1, <2>4, <1>1
    <3>2. Lands(BeginConnected(r.s), Append(<<{}>>, {}), r.s.durable)
      BY <3>1, BeginConnectedLands
    <3> QED BY <3>2, <2>1, <2>2, <1>3 DEF Lands
  <2> QED BY <2>3, <2>4
<1> QED BY <1>4, <1>5

-----------------------------------------------------------------------------
(* Ending. *)

(* The session has no transaction, and the adapter has none.               *)
Idle(s, t, d) ==
  /\ t \in State /\ t.tx = <<>> /\ ~ t.inTx /\ t.alive /\ ~ t.aborted /\ t.durable = d
  /\ SameFields(s, t) /\ t.platform = s.platform

(* A COMMIT or ROLLBACK succeeds, and the adapter forgets its transaction. *)
LEMMA EndSucceeds ==
  ASSUME NoFailures, NEW s \in State, s.alive, s.tx # <<>>, s.inTx,
         NEW done \in State, NEW d, Idle(s, [done EXCEPT !.inTx = FALSE], d)
  PROVE  /\ \A o \in ExecEnd(s, done) : o = [s |-> done, err |-> "none"]
         /\ \A o \in ForgetOnSuccess(ExecEnd(s, done)) \cup ForgetAlways(ExecEnd(s, done)) :
              o.err = "none" /\ Idle(s, o.s, d)
<1>1. ASSUME NEW o \in ExecEnd(s, done) PROVE o = [s |-> done, err |-> "none"]
  <2>1. EndFailures(s, done) = {}
    BY DEF NoFailures, EndFailures
  <2> QED BY <2>1 DEF ExecEnd, Returns
<1>2. ASSUME NEW o \in ExecEnd(s, done)
      PROVE  LET p == [o EXCEPT !.s.inTx = FALSE]
             IN  p.err = "none" /\ p.s = [done EXCEPT !.inTx = FALSE]
  <2>1. o \in Outcome /\ o.s = done /\ o.err = "none"
    BY <1>1 DEF Outcome, Ends
  <2>2. [o EXCEPT !.s.inTx = FALSE].err = o.err
    BY <2>1 DEF Outcome
  <2>3. [o EXCEPT !.s.inTx = FALSE].s = [o.s EXCEPT !.inTx = FALSE]
    BY <2>1 DEF Outcome
  <2> QED BY <2>1, <2>2, <2>3
<1>3. \A o \in ExecEnd(s, done) : (o.err # "none") = FALSE
  BY <1>1
<1>4. \A o \in ForgetOnSuccess(ExecEnd(s, done)) \cup ForgetAlways(ExecEnd(s, done)) :
        o.err = "none" /\ o.s = [done EXCEPT !.inTx = FALSE]
  <2>1. \A p \in ForgetAlways(ExecEnd(s, done)) : p.err = "none" /\ p.s = [done EXCEPT !.inTx = FALSE]
    BY <1>2 DEF ForgetAlways
  <2>2. ASSUME NEW p \in ForgetOnSuccess(ExecEnd(s, done))
        PROVE  p.err = "none" /\ p.s = [done EXCEPT !.inTx = FALSE]
    <3>1. PICK o \in ExecEnd(s, done) : p = [o EXCEPT !.s.inTx = (o.err # "none")]
      BY DEF ForgetOnSuccess
    <3>2. (o.err # "none") <=> FALSE
      BY <1>3
    <3>3. p = [o EXCEPT !.s.inTx = FALSE]
      BY <3>1, <3>2
    <3> QED BY <3>3, <1>2
  <2> QED BY <2>1, <2>2
<1> QED BY <1>1, <1>4

(* commit() makes every pending write durable; rollBack() and close() none. *)
LEMMA DriverEnds ==
  ASSUME NoFailures, NEW s \in State, s.alive, ~ s.aborted, s.inTx <=> s.tx # <<>>
  PROVE  /\ s.inTx => \A o \in DriverCommit(s) :
                        o.err = "none" /\ Idle(s, o.s, s.durable \cup Pending(s.tx))
         /\ s.inTx => \A o \in DriverRollBack(s) : o.err = "none" /\ Idle(s, o.s, s.durable)
         /\ \A o \in DriverClose(s) : o.err = "none" /\ Idle(s, o.s, s.durable)
<1> DEFINE undone == NoTx(s)
           done   == Committed(s)
<1>1. /\ undone \in State /\ SameFields(s, undone) /\ undone.tx = <<>> /\ undone.alive
      /\ ~ undone.aborted /\ undone.durable = s.durable /\ undone.platform = s.platform
  BY SessionStates DEF NoTx, State
<1>2. Pending(s.tx) \in SUBSET Writes
  BY PendingType DEF State
<1>3. done = [undone EXCEPT !.durable = s.durable \cup Pending(s.tx)]
  <2>1. undone.durable = s.durable
    BY <1>1
  <2> QED BY <2>1 DEF Committed
<1>4. /\ done \in State /\ SameFields(s, done) /\ done.tx = <<>> /\ done.alive
      /\ ~ done.aborted /\ done.durable = s.durable \cup Pending(s.tx) /\ done.platform = s.platform
  <2> HIDE DEF undone, done
  <2>1. s.durable \cup Pending(s.tx) \in SUBSET Writes
    BY <1>2 DEF State
  <2> QED BY <1>1, <1>3, <2>1 DEF State, SameFields
<1> HIDE DEF undone, done
<1>5. Idle(s, [undone EXCEPT !.inTx = FALSE], s.durable)
  BY <1>1 DEF Idle, State, SameFields
<1>6. Idle(s, [done EXCEPT !.inTx = FALSE], s.durable \cup Pending(s.tx))
  BY <1>4 DEF Idle, State, SameFields
<1>7. ASSUME s.inTx, NEW o \in DriverCommit(s)
      PROVE  o.err = "none" /\ Idle(s, o.s, s.durable \cup Pending(s.tx))
  <2>1. o \in ForgetOnSuccess(ExecEnd(s, done)) \cup ForgetAlways(ExecEnd(s, done))
    BY <1>7, DriverAssumption
       DEF DriverCommit, SQLite3Commit, PgCommit, MySQL2Commit, MSSQLCommit, done
  <2> QED BY <2>1, <1>4, <1>6, <1>7, EndSucceeds
<1>8. ASSUME s.inTx, NEW o \in DriverRollBack(s) PROVE o.err = "none" /\ Idle(s, o.s, s.durable)
  <2>1. o \in ForgetOnSuccess(ExecEnd(s, undone)) \cup ForgetAlways(ExecEnd(s, undone))
    BY <1>8, DriverAssumption
       DEF DriverRollBack, SQLite3RollBack, PgRollBack, MySQL2RollBack, MSSQLRollBack, undone
  <2> QED BY <2>1, <1>1, <1>5, <1>8, EndSucceeds
<1>9. ASSUME NEW o \in DriverClose(s) PROVE o.err = "none" /\ Idle(s, o.s, s.durable)
  <2>1. ~ s.inTx => Idle(s, s, s.durable)
    BY DEF Idle, SameFields
  <2>2. CASE Adapter = "sqlite3"
    <3>1. SQLite3Close(s) = Returns([undone EXCEPT !.inTx = FALSE])
      BY DEF SQLite3Close, NoFailures, undone
    <3>2. DriverClose(s) = SQLite3Close(s)
      BY <2>2 DEF DriverClose
    <3> QED BY <3>1, <3>2, <1>5, ReturnsAndThrows
  <2>3. CASE Adapter = "pg"
    <3>1. o \in PgClose(s)
      BY <2>3 DEF DriverClose
    <3>2. CASE s.inTx
      <4>1. PICK p \in ExecEnd(s, undone) : o = [s |-> [p.s EXCEPT !.inTx = FALSE], err |-> "none"]
        BY <3>1, <3>2 DEF PgClose, undone
      <4>2. p.s = undone
        BY <1>1, <1>5, <3>2, EndSucceeds
      <4> QED BY <4>1, <4>2, <1>5
    <3>3. CASE ~ s.inTx
      BY <3>1, <3>3, <2>1, ReturnsAndThrows DEF PgClose
    <3> QED BY <3>2, <3>3
  <2>4. CASE Adapter = "mssql"
    <3>1. o \in MSSQLClose(s)
      BY <2>4 DEF DriverClose
    <3>2. CASE s.inTx
      <4>1. o \in ForgetOnSuccess(ExecEnd(s, undone))
        BY <3>1, <3>2 DEF MSSQLClose, undone
      <4> QED BY <4>1, <1>1, <1>5, <3>2, EndSucceeds
    <3>3. CASE ~ s.inTx
      BY <3>1, <3>3, <2>1, ReturnsAndThrows DEF MSSQLClose
    <3> QED BY <3>2, <3>3
  <2> QED BY <2>2, <2>3, <2>4, DriverAssumption DEF NoFailures
<1> QED BY <1>7, <1>8, <1>9

(* What follows the outermost level: with auto-commit off, the next begins. *)
Reopened(s) == IF s.autoCommit THEN <<>> ELSE <<{}>>

(* The finally block of an auto-commit-off Connection begins a new level. *)
LEMMA FinallyBeginLands ==
  ASSUME NoFailures, NEW s, Agrees(s, <<>>), s.connected
  PROVE  Lands(FinallyBegin(s, "none"), <<{}>>, s.durable)
<1> DEFINE r == [s EXCEPT !.rollbackOnly = FALSE]
<1>1. /\ r \in State /\ r.level = s.level /\ r.tx = s.tx /\ r.inTx = s.inTx /\ r.connected
      /\ r.alive = s.alive /\ r.aborted = s.aborted /\ r.platform = s.platform
      /\ r.durable = s.durable
  BY DEF Agrees, State
<1> HIDE DEF r
<1>2. Agrees(r, <<>>)
  BY <1>1 DEF Agrees, Known
<1>3. Connect(r) = Returns(r)
  BY <1>1, <1>2, ConnectLands
<1>4. Thrown(Connect(r)) = {} /\ Resolved(Connect(r)) = {r}
  <2>1. \A o \in Connect(r) : o.err = "none"
    BY <1>3, ReturnsAndThrows
  <2>2. { o.s : o \in Connect(r) } = {r}
    BY <1>3 DEF Returns
  <2> QED BY <2>1, <2>2, ConvertNothing
<1>5. BeginTransaction(r) = BeginConnected(r)
  <2>1. BeginTransaction(r) = {} \cup UNION { BeginConnected(t) : t \in {r} }
    BY <1>4 DEF BeginTransaction
  <2> QED BY <2>1
<1>6. Lands(BeginConnected(r), <<{}>>, s.durable)
  <2>1. Append(<<>>, {}) = <<{}>>
    OBVIOUS
  <2> QED BY <2>1, <1>1, <1>2, BeginConnectedLands
<1>7. ASSUME NEW o \in FinallyBegin(s, "none")
      PROVE  o \in Outcome /\ o.err = "none" /\ Agrees(o.s, <<{}>>) /\ o.s.durable = s.durable
  <2>1. PICK b \in BeginTransaction(r) :
          o = IF b.err = "none" THEN [b EXCEPT !.err = "none"] ELSE b
    BY <1>7 DEF FinallyBegin, r
  <2>2. b \in Outcome /\ b.err = "none" /\ Agrees(b.s, <<{}>>) /\ b.s.durable = s.durable
    BY <2>1, <1>5, <1>6 DEF Lands
  <2>3. o = b
    BY <2>1, <2>2 DEF Outcome
  <2> QED BY <2>2, <2>3
<1> QED BY <1>7 DEF Lands

(* The frames of a single level hold its writes. *)
LEMMA SplitOne ==
  ASSUME NEW tx \in Seq(Frame), NEW st \in Stacks, Len(st) = 1, Split(tx, st)
  PROVE  Pending(tx) = st[1]
<1>1. PICK p \in [1 .. Len(st) -> 1 .. Len(tx)] : Splits(tx, st, p)
  BY DEF Split
<1>2. st # <<>> /\ 1 \in 1 .. Len(st)
  <2>1. ASSUME st = <<>> PROVE FALSE
    <3>1. Len(<<>>) = 0
      OBVIOUS
    <3>2. Len(st) = 0
      BY <2>1, <3>1, Zenon
    <3> QED BY <3>2
  <2>2. 1 \in 1 .. 1
    OBVIOUS
  <2>3. 1 \in 1 .. Len(st)
    BY <2>2, Zenon
  <2> QED BY <2>1, <2>3
<1>3. p[1] = 1 /\ st[1] = Held(tx, 1, Len(tx))
  <2>1. p[1] = 1 /\ st[1] = Held(tx, p[1], LastFrame(tx, st, p, 1)) /\ LastFrame(tx, st, p, Len(st)) = Len(tx)
    BY <1>1, <1>2, SplitFacts
  <2> QED BY <2>1
<1>4. DOMAIN tx = 1 .. Len(tx)
  OBVIOUS
<1> QED BY <1>3, <1>4 DEF Pending, Held

(* commit() of a transaction that is not marked rollback-only.             *)
LEMMA CommitLands ==
  ASSUME NoFailures, NEW s, NEW st, Agrees(s, st)
  PROVE  /\ s.level = 0 \/ s.rollbackOnly => Commit(s) = Throws(s)
         /\ s.level # 0 /\ ~ s.rollbackOnly =>
              IF Len(st) = 1 THEN Lands(Commit(s), Reopened(s), s.durable \cup st[1])
              ELSE Len(st) > 1 /\ Lands(Commit(s), Merged(st), s.durable)
<1>1. ASSUME s.level = 0 \/ s.rollbackOnly PROVE Commit(s) = Throws(s)
  BY <1>1 DEF Commit
<1>2. /\ s \in State /\ s.level \in Nat /\ s.tx \in Seq(Frame) /\ st \in Stacks
      /\ s.level = Len(st) /\ Split(s.tx, st) /\ s.alive /\ ~ s.aborted
      /\ (s.tx = <<>>) <=> (s.level = 0)
      /\ s.inTx <=> s.tx # <<>>
      /\ s.connected => Known(s)
      /\ ~ s.connected => s.level = 0
      /\ ~ Stale(s)
  BY AgreesTx DEF Agrees
<1>3. ASSUME s.level = 1, ~ s.rollbackOnly
      PROVE  Lands(Commit(s), Reopened(s), s.durable \cup st[1])
  <2>1. Pending(s.tx) = st[1]
    BY <1>2, <1>3, SplitOne
  <2>2. /\ \A o \in DriverCommit(s) : o.err = "none" /\ Idle(s, o.s, s.durable \cup st[1])
        /\ Convert(DriverCommit(s)) = DriverCommit(s)
    <3>1. s.inTx
      BY <1>2, <1>3
    <3>2. \A o \in DriverCommit(s) : o.err = "none" /\ Idle(s, o.s, s.durable \cup Pending(s.tx))
      BY <1>2, <3>1, DriverEnds
    <3> QED BY <2>1, <3>2, ConvertNothing
  <2>3. Commit(s) = UNION { AfterCommit(o.s, o.err) : o \in DriverCommit(s) }
    BY <1>3, <2>2 DEF Commit
  <2>4. ASSUME NEW t, Idle(s, t, s.durable \cup st[1])
        PROVE  Lands(AfterCommit(t, "none"), Reopened(s), s.durable \cup st[1])
    <3> DEFINE down == [t EXCEPT !.level = IF @ = 0 THEN 0 ELSE @ - 1]
    <3>1. t \in State /\ t.level = 1
      BY <1>3, <2>4 DEF Idle, SameFields
    <3>2. down = [t EXCEPT !.level = 0]
      BY <3>1
    <3>3. /\ down \in State /\ down.level = 0 /\ down.tx = <<>> /\ ~ down.inTx
          /\ down.alive /\ ~ down.aborted /\ down.durable = s.durable \cup st[1]
          /\ down.autoCommit = s.autoCommit /\ down.connected = s.connected
          /\ down.platform = s.platform
      <4> HIDE DEF down
      <4> QED BY <3>1, <3>2, <2>4 DEF Idle, SameFields, State
    <3>4. AfterCommit(t, "none") = IF down.autoCommit \/ down.level # 0
                                   THEN {[s |-> down, err |-> "none"]} ELSE FinallyBegin(down, "none")
      BY DEF AfterCommit
    <3> HIDE DEF down
    <3>5. s.connected
      BY <1>2, <1>3
    <3>6. Agrees(down, <<>>)
      BY <3>3, <1>2, SplitEmpty DEF Agrees, Known, Stacks
    <3>7. CASE s.autoCommit
      <4>1. AfterCommit(t, "none") = {[s |-> down, err |-> "none"]} /\ Reopened(s) = <<>>
        BY <3>3, <3>4, <3>7 DEF Reopened
      <4>2. [s |-> down, err |-> "none"] \in Outcome
        BY <3>3 DEF Outcome, Ends
      <4> QED BY <3>3, <3>6, <4>1, <4>2 DEF Lands
    <3>8. CASE ~ s.autoCommit
      <4>1. AfterCommit(t, "none") = FinallyBegin(down, "none") /\ Reopened(s) = <<{}>>
        BY <3>3, <3>4, <3>8 DEF Reopened
      <4>2. Lands(FinallyBegin(down, "none"), <<{}>>, s.durable \cup st[1])
        BY <3>3, <3>5, <3>6, FinallyBeginLands
      <4> QED BY <4>1, <4>2
    <3> QED BY <3>7, <3>8
  <2> QED BY <2>2, <2>3, <2>4, ZenonT(60) DEF Lands
<1>4. ASSUME s.level > 1, ~ s.rollbackOnly
      PROVE  Lands(Commit(s), Merged(st), s.durable)
  <2>1. Known(s) /\ s.connected /\ s.level # 0 /\ s.level # 1 /\ Len(st) > 1 /\ s.inTx
    <3>1. s.level \in Nat
      BY <1>2
    <3>2. s.level # 0 /\ s.level # 1
      BY <1>4, <3>1
    <3>3. Len(st) > 1
      BY <1>2, <1>4
    <3> QED BY <3>2, <3>3, <1>2
  <2>2. Merged(st) \in Stacks /\ Len(Merged(st)) = s.level - 1 /\ s.level - 1 # 0
    BY <1>2, <2>1, BelowStack
  <2>3. \A o \in ReleaseSavepoint(s) :
          /\ o \in Outcome /\ o.err = "none" /\ o.s.tx # <<>> /\ Split(o.s.tx, Merged(st))
          /\ o.s.durable = s.durable /\ SameFields(s, o.s) /\ o.s.inTx = s.inTx
          /\ o.s.alive /\ ~ o.s.aborted /\ o.s.platform = s.platform
    <3>1. CASE ~ SupportsReleaseSavepoints
      <4>1. ReleaseSavepoint(s) = Returns(s)
        BY <2>1, <3>1 DEF ReleaseSavepoint
      <4>2. Split(s.tx, Merged(st)) /\ s.tx # <<>>
        BY <1>2, <2>1, SplitMerged
      <4>3. \A o \in Returns(s) : o \in Outcome /\ o.s = s /\ o.err = "none"
        BY <1>2 DEF Returns, Outcome, Ends
      <4> QED BY <4>1, <4>2, <4>3, <1>2 DEF SameFields
    <3>2. CASE SupportsReleaseSavepoints
      <4>1. ReleaseSavepoint(s) = Convert(ExecRelease(s, s.level))
        BY <2>1, <3>2 DEF ReleaseSavepoint
      <4>2. Last(s.tx, s.level) # {}
        <5>1. PICK p \in [1 .. Len(st) -> 1 .. Len(s.tx)] : Splits(s.tx, st, p)
          BY <1>2 DEF Split
        <5>2. st # <<>> /\ s.level \in 1 .. Len(st)
          BY <1>2, <2>1 DEF Stacks
        <5>3. Last(s.tx, s.level) = {p[s.level]}
          BY <5>1, <5>2, <1>2, SplitLast
        <5> QED BY <5>3
      <4>3. ExecRelease(s, s.level) = UNION { Exec(s, Released(s, i)) : i \in Last(s.tx, s.level) }
        BY <4>2 DEF ExecRelease
      <4>4. ASSUME NEW i \in Last(s.tx, s.level), NEW o \in Exec(s, Released(s, i))
            PROVE  /\ o \in Outcome /\ o.err = "none" /\ o.s.tx # <<>> /\ Split(o.s.tx, Merged(st))
                   /\ o.s.durable = s.durable /\ SameFields(s, o.s) /\ o.s.inTx = s.inTx
                   /\ o.s.alive /\ ~ o.s.aborted /\ o.s.platform = s.platform
        <5> DEFINE u == Append(SubSeq(s.tx, 1, i - 2),
                               [sp |-> s.tx[i - 1].sp,
                                writes |-> s.tx[i - 1].writes \cup Pending(SubSeq(s.tx, i, Len(s.tx)))])
        <5>1. i # 1 /\ u \in Seq(Frame) /\ u # <<>> /\ Split(u, Merged(st))
          BY <1>2, <2>1, SplitReleased
        <5>2. Released(s, i) = [s EXCEPT !.tx = u]
          <6>1. i # 1
            BY <5>1
          <6> QED BY <6>1 DEF Released
        <5> HIDE DEF u
        <5>3. /\ Released(s, i) \in State /\ Released(s, i).tx = u
              /\ SameFields(s, Released(s, i)) /\ Released(s, i).inTx = s.inTx
              /\ Released(s, i).alive = s.alive /\ Released(s, i).aborted = s.aborted
              /\ Released(s, i).platform = s.platform /\ Released(s, i).durable = s.durable
          BY <5>1, <5>2, <1>2 DEF State, SameFields
        <5>4. o \in Outcome /\ o.s = Released(s, i) /\ o.err = "none"
          BY <5>3, <1>2, ExecSucceeds
        <5>5. o.s.tx = u /\ SameFields(s, o.s)
          BY <5>3, <5>4
        <5>6. /\ o.s.inTx = s.inTx /\ o.s.alive /\ ~ o.s.aborted
              /\ o.s.platform = s.platform /\ o.s.durable = s.durable
          BY <5>3, <5>4, <1>2
        <5> QED BY <5>1, <5>4, <5>5, <5>6
      <4>5. \A o \in ExecRelease(s, s.level) : o.err = "none"
        BY <4>3, <4>4
      <4>6. ReleaseSavepoint(s) = ExecRelease(s, s.level)
        BY <4>1, <4>5, ConvertNothing
      <4> QED BY <4>3, <4>4, <4>6
    <3> QED BY <3>1, <3>2
  <2>4. \A o \in ReleaseSavepoint(s) : o.err = "none"
    BY <2>3
  <2>5. Commit(s) = UNION { AfterCommit(o.s, o.err) : o \in ReleaseSavepoint(s) }
    <3>1. Commit(s) = UNION { AfterCommit(o.s, o.err) : o \in Convert(ReleaseSavepoint(s)) }
      BY <2>1, <1>4 DEF Commit
    <3>2. Convert(ReleaseSavepoint(s)) = ReleaseSavepoint(s)
      BY <2>4, ConvertNothing
    <3> QED BY <3>1, <3>2
  <2>6. ASSUME NEW p \in ReleaseSavepoint(s), NEW o \in AfterCommit(p.s, p.err)
        PROVE  o \in Outcome /\ o.err = "none" /\ Agrees(o.s, Merged(st)) /\ o.s.durable = s.durable
    <3> DEFINE t == p.s
               down == [t EXCEPT !.level = IF @ = 0 THEN 0 ELSE @ - 1]
    <3>1. /\ t \in State /\ p.err = "none" /\ t.tx # <<>> /\ Split(t.tx, Merged(st))
          /\ t.durable = s.durable /\ t.level = s.level /\ t.connected = s.connected
          /\ t.inTx = s.inTx /\ t.alive /\ ~ t.aborted /\ t.platform = s.platform
      BY <2>3 DEF Outcome, SameFields
    <3>2. down = [t EXCEPT !.level = s.level - 1]
      BY <3>1, <2>1
    <3>3. s.level - 1 \in Nat
      BY <1>2, <1>4
    <3>4. /\ down \in State /\ down.level = s.level - 1 /\ down.tx = t.tx /\ down.inTx = s.inTx
          /\ down.alive /\ ~ down.aborted /\ down.durable = s.durable
          /\ down.connected = s.connected /\ down.platform = s.platform
      <4> HIDE DEF down, t
      <4> QED BY <3>1, <3>2, <3>3 DEF State
    <3>5. AfterCommit(t, p.err) = IF down.autoCommit \/ down.level # 0
                                  THEN {[s |-> down, err |-> p.err]} ELSE FinallyBegin(down, p.err)
      BY DEF AfterCommit
    <3> HIDE DEF down
    <3>6. o = [s |-> down, err |-> "none"]
      BY <3>1, <3>4, <3>5, <2>2
    <3>7. Known(down)
      BY <3>4, <2>1 DEF Known
    <3>8. Agrees(down, Merged(st))
      <4> HIDE DEF t
      <4> QED BY <3>1, <3>4, <3>7, <2>1, <2>2 DEF Agrees
    <3> QED BY <3>4, <3>6, <3>8 DEF Outcome, Ends
  <2> QED BY <2>5, <2>6 DEF Lands
<1>5. s.level # 0 => s.level = 1 \/ s.level > 1
  <2>1. s.level \in Nat
    BY <1>2
  <2> QED BY <2>1
<1> QED BY <1>1, <1>2, <1>3, <1>4, <1>5

(* rollBack() drops the innermost level and its writes.                   *)
LEMMA RollBackLands ==
  ASSUME NoFailures, NEW s, NEW st, Agrees(s, st)
  PROVE  /\ s.level = 0 => RollBack(s) = Throws(s)
         /\ s.level # 0 => RollBackIfActive(s) = RollBack(s)
         /\ s.level # 0 =>
              IF Len(st) = 1 THEN Lands(RollBack(s), Reopened(s), s.durable)
              ELSE Len(st) > 1 /\ Lands(RollBack(s), Below(st), s.durable)
<1>1. s.level = 0 => RollBack(s) = Throws(s)
  BY DEF RollBack
<1>2. /\ s \in State /\ s.level \in Nat /\ s.tx \in Seq(Frame) /\ st \in Stacks
      /\ s.level = Len(st) /\ Split(s.tx, st) /\ s.alive /\ ~ s.aborted
      /\ (s.tx = <<>>) <=> (s.level = 0)
      /\ s.inTx <=> s.tx # <<>>
      /\ s.connected => Known(s)
      /\ ~ s.connected => s.level = 0
      /\ ~ Stale(s)
  BY AgreesTx DEF Agrees
<1>n. s.level \in Nat
  BY <1>2
<1>3. ASSUME s.level = 1
      PROVE  Lands(RollBack(s), Reopened(s), s.durable)
  <2> DEFINE z == [s EXCEPT !.level = 0]
  <2>1. /\ z \in State /\ z.level = 0 /\ z.tx = s.tx /\ z.inTx = s.inTx /\ z.alive
        /\ ~ z.aborted /\ z.durable = s.durable /\ z.autoCommit = s.autoCommit
        /\ z.connected = s.connected /\ z.platform = s.platform
    BY <1>2 DEF State
  <2>2. s.inTx /\ s.connected
    BY <1>2, <1>3
  <2>3. RollBackOutermost(s) =
          UNION { IF s.autoCommit THEN {[o EXCEPT !.s.rollbackOnly = FALSE]}
                  ELSE FinallyBegin(o.s, o.err) : o \in DriverRollBack(z) }
    BY DEF RollBackOutermost
  <2> HIDE DEF z
  <2>4. \A o \in DriverRollBack(z) : o.err = "none" /\ Idle(z, o.s, s.durable)
    <3>1. z.inTx <=> z.tx # <<>>
      BY <2>1, <1>2
    <3> QED BY <3>1, <2>1, <2>2, DriverEnds
  <2>5. ASSUME NEW o \in DriverRollBack(z)
        PROVE  o \in Outcome /\ o.err = "none" /\ Idle(z, o.s, s.durable)
    <3>1. Driven(z, DriverRollBack(z))
      BY <2>1, RollBackDrives
    <3> QED BY <3>1, <2>4 DEF Driven
  <2>6. ASSUME NEW t \in State, Idle(z, t, s.durable) PROVE Agrees(t, <<>>) /\ t.connected /\ t.durable = s.durable
    <3>1. /\ t.level = 0 /\ t.tx = <<>> /\ ~ t.inTx /\ t.alive /\ ~ t.aborted /\ t.connected
          /\ t.platform = s.platform
      BY <2>1, <2>2, <2>6 DEF Idle, SameFields
    <3>2. Known(t)
      BY <3>1, <1>2, <2>2 DEF Known
    <3> QED BY <3>1, <3>2, <2>6, SplitEmpty DEF Agrees, Stacks, Idle
  <2>7. CASE s.autoCommit
    <3>1. ASSUME NEW o \in DriverRollBack(z), NEW p, p = [o EXCEPT !.s.rollbackOnly = FALSE]
          PROVE  p \in Outcome /\ p.err = "none" /\ Agrees(p.s, <<>>) /\ p.s.durable = s.durable
      <4>1. o \in Outcome /\ o.s \in State /\ o.err = "none" /\ Idle(z, o.s, s.durable)
        BY <2>5 DEF Outcome
      <4>2. p.err = o.err /\ p.s = [o.s EXCEPT !.rollbackOnly = FALSE] /\ p \in Outcome
        <5>1. [o.s EXCEPT !.rollbackOnly = FALSE] \in State
          BY <4>1 DEF State
        <5> QED BY <5>1, <4>1, <3>1 DEF Outcome
      <4>3. /\ p.s \in State /\ p.s.tx = o.s.tx /\ p.s.inTx = o.s.inTx /\ p.s.alive = o.s.alive
            /\ p.s.aborted = o.s.aborted /\ p.s.durable = o.s.durable /\ p.s.level = o.s.level
            /\ p.s.connected = o.s.connected /\ p.s.platform = o.s.platform
        BY <4>1, <4>2 DEF State
      <4>4. Agrees(o.s, <<>>) /\ o.s.durable = s.durable
        BY <4>1, <2>6
      <4>5. Agrees(p.s, <<>>)
        BY <4>3, <4>4 DEF Agrees, Known
      <4> QED BY <4>1, <4>2, <4>3, <4>4, <4>5
    <3>2. RollBackOutermost(s) = { [o EXCEPT !.s.rollbackOnly = FALSE] : o \in DriverRollBack(z) }
      BY <2>3, <2>7
    <3>3. Lands(RollBackOutermost(s), <<>>, s.durable)
      BY <3>1, <3>2 DEF Lands
    <3>4. RollBack(s) = Convert(RollBackOutermost(s)) /\ Reopened(s) = <<>>
      BY <1>3, <2>7 DEF RollBack, Reopened
    <3> QED BY <3>3, <3>4, ConvertNothing DEF Lands
  <2>8. CASE ~ s.autoCommit
    <3>1. ASSUME NEW o \in DriverRollBack(z) PROVE Lands(FinallyBegin(o.s, o.err), <<{}>>, s.durable)
      <4>1. o.s \in State /\ o.err = "none" /\ Idle(z, o.s, s.durable)
        BY <2>5 DEF Outcome
      <4> QED BY <4>1, <2>6, FinallyBeginLands
    <3>2. RollBackOutermost(s) = UNION { FinallyBegin(o.s, o.err) : o \in DriverRollBack(z) }
      BY <2>3, <2>8
    <3>3. Lands(RollBackOutermost(s), <<{}>>, s.durable)
      BY <3>1, <3>2 DEF Lands
    <3>4. RollBack(s) = Convert(RollBackOutermost(s)) /\ Reopened(s) = <<{}>>
      BY <1>3, <2>8 DEF RollBack, Reopened
    <3> QED BY <3>3, <3>4, ConvertNothing DEF Lands
  <2> QED BY <2>7, <2>8
<1>4. ASSUME s.level > 1
      PROVE  Lands(RollBack(s), Below(st), s.durable)
  <2>1. Known(s) /\ s.connected /\ s.level # 0 /\ s.level # 1 /\ Len(st) > 1 /\ s.inTx
    <3>1. s.level # 0 /\ s.level # 1
      BY <1>4, <1>n
    <3>2. Len(st) > 1
      BY <1>2, <1>4
    <3> QED BY <3>1, <3>2, <1>2
  <2>2. Below(st) \in Stacks /\ Len(Below(st)) = s.level - 1 /\ s.level - 1 # 0 /\ s.level - 1 \in Nat
    <3>1. Below(st) \in Stacks /\ Len(Below(st)) = s.level - 1
      BY <1>2, <2>1, BelowStack
    <3> QED BY <3>1, <1>n, <1>4
  <2>3. ExecRollbackTo(s, s.level) =
          { [s |-> RolledBackTo(s, i, s.level), err |-> "none"] : i \in Last(s.tx, s.level) }
    <3>1. Last(s.tx, s.level) # {}
      <4>1. PICK p \in [1 .. Len(st) -> 1 .. Len(s.tx)] : Splits(s.tx, st, p)
        BY <1>2 DEF Split
      <4>2. Len(<<>>) = 0
        OBVIOUS
      <4>3. st # <<>> /\ s.level \in 1 .. Len(st)
        BY <1>2, <1>n, <2>1, <4>2
      <4>4. Last(s.tx, s.level) = {p[s.level]}
        BY <4>1, <4>3, <1>2, SplitLast
      <4> QED BY <4>4
    <3>2. Losses(s) = {}
      BY DEF Losses, NoFailures
    <3> QED BY <3>1, <3>2, <1>2 DEF ExecRollbackTo
  <2>4. ASSUME NEW o \in ExecRollbackTo(s, s.level)
        PROVE  /\ o \in Outcome /\ o.err = "none" /\ o.s.tx # <<>> /\ Split(o.s.tx, Below(st))
               /\ o.s.durable = s.durable /\ SameFields(s, o.s) /\ o.s.inTx = s.inTx
               /\ o.s.alive /\ ~ o.s.aborted /\ o.s.platform = s.platform
    <3>1. PICK i \in Last(s.tx, s.level) : o = [s |-> RolledBackTo(s, i, s.level), err |-> "none"]
      BY <2>3
    <3> DEFINE u == Append(SubSeq(s.tx, 1, i - 1), Mark(Len(st)))
               t == RolledBackTo(s, i, s.level)
    <3>2. u \in Seq(Frame) /\ u # <<>> /\ Split(u, Below(st))
      <4>1. i \in Last(s.tx, Len(st))
        BY <1>2
      <4> QED BY <4>1, <1>2, <2>1, SplitRolledBack
    <3>3. t = [s EXCEPT !.tx = u, !.aborted = FALSE]
      BY <1>2 DEF RolledBackTo
    <3> HIDE DEF u, t
    <3>4. /\ t \in State /\ t.tx = u /\ SameFields(s, t) /\ t.inTx = s.inTx /\ t.alive = s.alive
          /\ ~ t.aborted /\ t.platform = s.platform /\ t.durable = s.durable
      BY <3>2, <3>3, <1>2 DEF State, SameFields
    <3>5. o \in Outcome /\ o.s = t /\ o.err = "none"
      BY <3>1, <3>4 DEF Outcome, Ends, t
    <3>6. o.s.tx = u /\ SameFields(s, o.s)
      BY <3>4, <3>5
    <3>7. /\ o.s.inTx = s.inTx /\ o.s.alive /\ ~ o.s.aborted
          /\ o.s.platform = s.platform /\ o.s.durable = s.durable
      BY <3>4, <3>5, <1>2
    <3> QED BY <3>2, <3>5, <3>6, <3>7
  <2>5. RollbackSavepoint(s) = ExecRollbackTo(s, s.level)
    BY <2>1, <2>4, ConvertNothing DEF RollbackSavepoint
  <2>6. RollBackNested(s) = { [o EXCEPT !.s.level = @ - 1] : o \in ExecRollbackTo(s, s.level) }
    BY <2>4, <2>5 DEF RollBackNested
  <2>7. ASSUME NEW q \in RollBackNested(s)
        PROVE  q \in Outcome /\ q.err = "none" /\ Agrees(q.s, Below(st)) /\ q.s.durable = s.durable
    <3>1. PICK o \in ExecRollbackTo(s, s.level) : q = [o EXCEPT !.s.level = @ - 1]
      BY <2>6
    <3>2. PICK t : t = o.s
      OBVIOUS
    <3>3. /\ t \in State /\ o.err = "none" /\ t.tx # <<>> /\ Split(t.tx, Below(st))
          /\ t.durable = s.durable /\ t.level = s.level /\ t.connected = s.connected
          /\ t.inTx = s.inTx /\ t.alive /\ ~ t.aborted /\ t.platform = s.platform
      BY <2>4, <3>2 DEF Outcome, SameFields
    <3>4. q.err = "none" /\ q.s = [t EXCEPT !.level = s.level - 1]
      <4>1. o \in Outcome
        BY <2>4
      <4> QED BY <4>1, <3>1, <3>2, <3>3 DEF Outcome
    <3>5. /\ q.s \in State /\ q.s.level = s.level - 1 /\ q.s.tx = t.tx /\ q.s.inTx = s.inTx
          /\ q.s.alive /\ ~ q.s.aborted /\ q.s.durable = s.durable
          /\ q.s.connected = s.connected /\ q.s.platform = s.platform
      BY <3>3, <3>4, <2>2 DEF State
    <3>6. Known(q.s)
      BY <3>5, <2>1 DEF Known
    <3>7. q \in Outcome
      <4>1. o \in Outcome
        BY <2>4
      <4> QED BY <4>1, <3>1, <3>4, <3>5 DEF Outcome
    <3>8. Agrees(q.s, Below(st))
      BY <3>3, <3>5, <3>6, <2>1, <2>2 DEF Agrees
    <3> QED BY <3>4, <3>5, <3>7, <3>8
  <2>8. RollBack(s) = RollBackNested(s)
    <3>1. RollBack(s) = Convert(RollBackNested(s))
      BY <2>1 DEF RollBack
    <3> QED BY <3>1, <2>7, ConvertNothing
  <2> QED BY <2>7, <2>8 DEF Lands
<1>5. s.level # 0 => s.level = 1 \/ s.level > 1
  BY <1>n
<1>6. s.level # 0 => RollBackIfActive(s) = RollBack(s)
  BY DEF RollBackIfActive
<1> QED BY <1>1, <1>2, <1>3, <1>4, <1>5, <1>6

(* close() leaves no level. *)
LEMMA CloseLands ==
  ASSUME NoFailures, NEW s, NEW st, Agrees(s, st), s.connected
  PROVE  Lands(Close(s), <<>>, s.durable)
<1>1. /\ s \in State /\ s.alive /\ ~ s.aborted
      /\ s.inTx <=> s.tx # <<>>
  BY AgreesTx DEF Agrees
<1>2. ASSUME NEW o \in DriverClose(s)
      PROVE  o \in Outcome /\ o.err = "none" /\ Idle(s, o.s, s.durable)
  <2>1. Driven(s, DriverClose(s))
    BY <1>1, CloseDrives
  <2>2. \A p \in DriverClose(s) : p.err = "none" /\ Idle(s, p.s, s.durable)
    BY <1>1, DriverEnds
  <2> QED BY <2>1, <2>2 DEF Driven
<1>3. Close(s) = { [o EXCEPT !.s = Reset(@)] : o \in DriverClose(s) }
  <2>1. Convert(DriverClose(s)) = DriverClose(s)
    BY <1>2, ConvertNothing
  <2> QED BY <1>2, <2>1 DEF Close
<1>4. ASSUME NEW t \in State, Idle(s, t, s.durable)
      PROVE  Agrees(Reset(t), <<>>) /\ Reset(t).durable = s.durable
  <2> DEFINE n == IF Adapter = "sqlite3" \/ (Pooled /\ t.inTx) THEN NoTx(t) ELSE t
  <2>1. /\ n \in State /\ n.tx = <<>> /\ ~ n.inTx /\ n.alive /\ ~ n.aborted
        /\ n.durable = s.durable
    BY <1>4, SessionStates DEF Idle, NoTx, State
  <2>2. Reset(t) = [n EXCEPT !.connected = FALSE, !.level = 0, !.rollbackOnly = FALSE, !.inTx = FALSE]
    BY DEF Reset
  <2> HIDE DEF n
  <2>3. /\ Reset(t) \in State /\ Reset(t).tx = <<>> /\ ~ Reset(t).inTx /\ Reset(t).alive
        /\ ~ Reset(t).aborted /\ Reset(t).durable = s.durable /\ Reset(t).level = 0
        /\ ~ Reset(t).connected
    <3>1. /\ Reset(t) \in State /\ Reset(t).level = 0
          /\ ~ Reset(t).connected /\ ~ Reset(t).inTx
      BY <1>4, ResetGood DEF Good, Dropped
    <3>2. /\ Reset(t).tx = n.tx /\ Reset(t).alive = n.alive
          /\ Reset(t).aborted = n.aborted /\ Reset(t).durable = n.durable
      BY <2>1, <2>2 DEF State
    <3> QED BY <2>1, <3>1, <3>2
  <2> QED BY <2>3, SplitEmpty DEF Agrees, Stacks
<1>5. ASSUME NEW q \in Close(s)
      PROVE  q \in Outcome /\ q.err = "none" /\ Agrees(q.s, <<>>) /\ q.s.durable = s.durable
  <2>1. PICK o \in DriverClose(s) : q = [o EXCEPT !.s = Reset(@)]
    BY <1>3
  <2>2. o \in Outcome /\ o.s \in State /\ o.err = "none" /\ Idle(s, o.s, s.durable)
    BY <1>2 DEF Outcome
  <2>3. Reset(o.s) \in State /\ Agrees(Reset(o.s), <<>>) /\ Reset(o.s).durable = s.durable
    BY <2>2, <1>4 DEF Agrees
  <2>4. q.s = Reset(o.s) /\ q.err = "none" /\ q \in Outcome
    BY <2>1, <2>2, <2>3 DEF Outcome
  <2> QED BY <2>3, <2>4
<1> QED BY <1>5 DEF Lands

(* A write belongs to the innermost level, or is durable at once.          *)
LEMMA ExecuteConnectedLands ==
  ASSUME NoFailures, NEW s, NEW st, Agrees(s, st), NEW w \in Writes
  PROVE  /\ st = <<>> => Lands(DriverExec(s, w), <<>>, s.durable \cup {w})
         /\ st # <<>> =>
              Lands(DriverExec(s, w), Wrote(st, w), s.durable)
<1> DEFINE t == Written(s, w)
<1>1. /\ s \in State /\ s.level \in Nat /\ s.tx \in Seq(Frame) /\ st \in Stacks
      /\ s.level = Len(st) /\ Split(s.tx, st) /\ s.alive /\ ~ s.aborted
      /\ (s.tx = <<>>) <=> (s.level = 0)
      /\ (st = <<>>) <=> (s.level = 0)
      /\ s.inTx <=> s.tx # <<>>
      /\ s.connected => Known(s)
      /\ ~ s.connected => s.level = 0
      /\ ~ Stale(s)
  BY AgreesTx DEF Agrees
<1>2. t \in State /\ SameFields(s, t) /\ t.inTx = s.inTx
  BY <1>1, WrittenState
<1>3. \A o \in DriverExec(s, w) : o \in Outcome /\ o.s = t /\ o.err = "none"
  <2>1. DriverExec(s, w) = Exec(s, t)
    BY DEF DriverExec, NoFailures
  <2> HIDE DEF t
  <2> QED BY <1>1, <1>2, <2>1, ExecSucceeds
<1>4. CASE st = <<>>
  <2>1. t = [s EXCEPT !.durable = @ \cup {w}]
    BY <1>1, <1>4 DEF Written
  <2> HIDE DEF t
  <2>2. /\ t.durable = s.durable \cup {w} /\ t.tx = s.tx /\ t.alive /\ ~ t.aborted
        /\ t.platform = s.platform /\ t.level = s.level /\ t.connected = s.connected
    BY <1>1, <2>1 DEF State
  <2>3. Agrees(t, st)
    BY <1>1, <1>2, <2>2 DEF Agrees, Known
  <2> QED BY <1>3, <1>4, <2>2, <2>3 DEF Lands
<1>5. CASE st # <<>>
  <2> DEFINE u == [s.tx EXCEPT ![Len(s.tx)].writes = @ \cup {w}]
             v == [st EXCEPT ![Len(st)] = @ \cup {w}]
  <2>1. t = [s EXCEPT !.tx = u]
    <3>1. t = [s EXCEPT !.tx[Len(s.tx)].writes = @ \cup {w}]
      BY <1>1, <1>5 DEF Written
    <3> QED BY <3>1, <1>1 DEF State
  <2>2. Split(u, v)
    BY <1>1, <1>5, SplitWritten
  <2>3. v \in Stacks /\ Len(v) = Len(st)
    <3>1. Len(st) \in 1 .. Len(st) /\ st[Len(st)] \cup {w} \in SUBSET Writes
      <4>1. Len(st) \in 1 .. Len(st)
        BY <1>1, <1>5
      <4>2. st[Len(st)] \in SUBSET Writes
        BY <4>1, <1>1, ElementOfSeq DEF Stacks
      <4> QED BY <4>1, <4>2
    <3> QED BY <3>1, <1>1, ExceptSeq DEF Stacks
  <2> HIDE DEF t, u, v
  <2>4. /\ t.durable = s.durable /\ t.tx = u /\ t.alive /\ ~ t.aborted
        /\ t.platform = s.platform /\ t.level = s.level /\ t.connected = s.connected
    BY <1>1, <2>1 DEF State
  <2>5. Agrees(t, v)
    BY <1>1, <1>2, <1>5, <2>2, <2>3, <2>4 DEF Agrees, Known
  <2>6. Lands(DriverExec(s, w), v, s.durable)
    BY <1>3, <2>4, <2>5 DEF Lands
  <2> QED BY <1>5, <2>6 DEF v, Wrote
<1> QED BY <1>4, <1>5

(* The same for a statement whose call has to connect first.              *)
LEMMA ExecuteStatementLands ==
  ASSUME NoFailures, NEW s, NEW st, Agrees(s, st), NEW w \in Writes,
         NEW o \in ExecuteStatement(s, w)
  PROVE  /\ o \in Outcome /\ o.err = "none"
         /\ \/ st # <<>> /\ o.s.durable = s.durable
                         /\ Agrees(o.s, Wrote(st, w))
            \/ st = <<>> /\ o.s.durable = s.durable \cup {w} /\ Agrees(o.s, <<>>)
            \/ st = <<>> /\ o.s.durable = s.durable /\ Agrees(o.s, <<{w}>>)
<1>1. \A r \in Connect(s) : r.err = "none" /\ r.s.connected
  BY ConnectLands
<1>2. Thrown(Connect(s)) = {} /\ Resolved(Connect(s)) = { r.s : r \in Connect(s) }
  BY <1>1, ConvertNothing
<1>3. PICK r \in Connect(s) : o \in Convert(DriverExec(r.s, w))
  BY <1>2 DEF ExecuteStatement
<1>4. ASSUME NEW ns, Agrees(r.s, ns)
      PROVE  /\ o \in Outcome /\ o.err = "none"
             /\ ns = <<>> => o.s.durable = r.s.durable \cup {w} /\ Agrees(o.s, <<>>)
             /\ ns # <<>> => o.s.durable = r.s.durable /\ Agrees(o.s, Wrote(ns, w))
  <2>1. \A p \in DriverExec(r.s, w) : p.err = "none"
    <3>1. CASE ns = <<>>
      <4>1. Lands(DriverExec(r.s, w), <<>>, r.s.durable \cup {w})
        BY <3>1, <1>4, ExecuteConnectedLands
      <4> QED BY <4>1 DEF Lands
    <3>2. CASE ns # <<>>
      <4>1. Lands(DriverExec(r.s, w), Wrote(ns, w), r.s.durable)
        BY <3>2, <1>4, ExecuteConnectedLands
      <4> QED BY <4>1 DEF Lands
    <3> QED BY <3>1, <3>2
  <2>2. o \in DriverExec(r.s, w)
    BY <2>1, <1>3, ConvertNothing
  <2>3. CASE ns = <<>>
    <3>1. Lands(DriverExec(r.s, w), <<>>, r.s.durable \cup {w})
      BY <2>3, <1>4, ExecuteConnectedLands
    <3> QED BY <3>1, <2>2, <2>3 DEF Lands
  <2>4. CASE ns # <<>>
    <3>1. Lands(DriverExec(r.s, w), Wrote(ns, w), r.s.durable)
      BY <2>4, <1>4, ExecuteConnectedLands
    <3> QED BY <3>1, <2>2, <2>4 DEF Lands
  <2> QED BY <2>3, <2>4
<1>5. CASE s.connected
  <2>1. r.s = s
    BY <1>5, ConnectLands, ReturnsAndThrows
  <2> QED BY <2>1, <1>4
<1>6. CASE ~ s.connected
  <2>1. st = <<>> /\ Agrees(r.s, IF s.autoCommit THEN <<>> ELSE <<{}>>) /\ r.s.durable = s.durable
    BY <1>6, ConnectLands DEF Lands
  <2>2. CASE s.autoCommit
    <3>1. Agrees(r.s, <<>>)
      BY <2>1, <2>2
    <3> QED BY <2>1, <3>1, <1>4
  <2>3. CASE ~ s.autoCommit
    <3>1. Agrees(r.s, <<{}>>)
      BY <2>1, <2>3
    <3>2. <<{}>> # <<>> /\ Wrote(<<{}>>, w) = <<{w}>>
      <4>1. Len(<<{}>>) = 1 /\ [<<{}>> EXCEPT ![1] = @ \cup {w}] = <<{w}>>
        OBVIOUS
      <4> QED BY <4>1 DEF Wrote
    <3> QED BY <2>1, <3>1, <3>2, <1>4
  <2> QED BY <2>2, <2>3
<1> QED BY <1>5, <1>6

-----------------------------------------------------------------------------
(* Who owns a write: the levels st, the durable writes d, the unused ones  *)
(* u and the rejected ones r share none of them, and a scope's writes are  *)
(* in the levels from its own upwards, when they are still anywhere.       *)
Apart(st, d, u, r) ==
  /\ u \cap d = {} /\ r \cap d = {} /\ r \cap u = {}
  /\ \A n \in 1 .. Len(st) : st[n] \cap d = {} /\ st[n] \cap u = {} /\ st[n] \cap r = {}

Owned(st, d, ss, u, r) ==
  /\ Len(ss) <= Len(st)
  /\ Apart(st, d, u, r)
  /\ \A i \in 1 .. Len(ss) :
       /\ ss[i].writes \cap d = {} /\ ss[i].writes \cap u = {}
       /\ \A n \in 1 .. Len(st) : n < Len(st) - Len(ss) + i => ss[i].writes \cap st[n] = {}

(* The writes of the innermost scope. *)
Innermost(ss) == ss[Len(ss)].writes

(* Left for the scopes ss. *)
LeftOf(ss) ==
  IF ss = <<>> THEN ss
  ELSE Noted(SubSeq(ss, 1, Len(ss) - 1), ss[Len(ss)].writes)

-----------------------------------------------------------------------------

(* A sequence is empty when its length is 0.                              *)
LEMMA LenZero ==
  ASSUME NEW S, NEW q \in Seq(S)
  PROVE  Len(q) \in Nat /\ (q = <<>> <=> Len(q) = 0)
OBVIOUS

(* Without scopes it is enough that the writes are apart.                 *)
LEMMA OwnedOutside ==
  ASSUME NEW st \in Stacks, NEW d, NEW u, NEW r, Apart(st, d, u, r)
  PROVE  Owned(st, d, <<>>, u, r)
<1>1. Len(<<>>) = 0 /\ Len(st) \in Nat
  BY DEF Stacks
<1> QED BY <1>1 DEF Owned

(* Noting writes adds them to the innermost scope's.                      *)
LEMMA NotedFacts ==
  ASSUME NEW ss \in Seq(Scope), NEW ws \in SUBSET Writes
  PROVE  /\ Noted(ss, ws) \in Seq(Scope) /\ Len(Noted(ss, ws)) = Len(ss)
         /\ \A i \in 1 .. Len(ss) :
              Noted(ss, ws)[i].writes = IF i = Len(ss) THEN ss[i].writes \cup ws ELSE ss[i].writes
<1>1. CASE ss = <<>>
  BY <1>1 DEF Noted
<1>2. CASE ss # <<>>
  <2> DEFINE e == [ss[Len(ss)] EXCEPT !.writes = @ \cup ws]
  <2>1. Len(ss) \in 1 .. Len(ss)
    BY <1>2, LenZero
  <2>2. ss[Len(ss)] \in Scope
    BY <2>1, ElementOfSeq
  <2>3. e \in Scope /\ e.writes = ss[Len(ss)].writes \cup ws
    BY <2>2 DEF Scope
  <2>4. Noted(ss, ws) = [ss EXCEPT ![Len(ss)] = e]
    BY <1>2 DEF Noted
  <2> HIDE DEF e
  <2>5. /\ [ss EXCEPT ![Len(ss)] = e] \in Seq(Scope) /\ Len([ss EXCEPT ![Len(ss)] = e]) = Len(ss)
        /\ \A j \in 1 .. Len(ss) : [ss EXCEPT ![Len(ss)] = e][j] = IF j = Len(ss) THEN e ELSE ss[j]
    BY <2>1, <2>3, ExceptSeq
  <2> QED BY <2>3, <2>4, <2>5
<1> QED BY <1>1, <1>2

(* The scopes that are left keep their writes, the innermost of them gets  *)
(* those of the scope that ended.                                          *)
LEMMA LeftFacts ==
  ASSUME NEW ss \in Seq(Scope), NEW m \in Nat, Len(ss) = m + 1
  PROVE  /\ LeftOf(ss) \in Seq(Scope) /\ Len(LeftOf(ss)) = m
         /\ \A i \in 1 .. m :
              LeftOf(ss)[i].writes = IF i = m THEN ss[i].writes \cup ss[m + 1].writes
                                     ELSE ss[i].writes
         /\ ss[m + 1].writes \in SUBSET Writes
<1>1. ss # <<>> /\ Len(ss) - 1 = m /\ m + 1 \in 1 .. Len(ss)
  BY LenZero
<1>2. ss[m + 1] \in Scope
  BY <1>1, ElementOfSeq
<1>3. ss[m + 1].writes \in SUBSET Writes
  BY <1>2 DEF Scope
<1>4. /\ SubSeq(ss, 1, m) \in Seq(Scope) /\ Len(SubSeq(ss, 1, m)) = m
      /\ \A j \in 1 .. m : SubSeq(ss, 1, m)[j] = ss[j]
  <2>1. 1 \in 1 .. Len(ss) + 1 /\ m \in 1 - 1 .. Len(ss)
    OBVIOUS
  <2> QED BY <2>1
<1>5. LeftOf(ss) = Noted(SubSeq(ss, 1, m), ss[m + 1].writes)
  BY <1>1 DEF LeftOf
<1>6. PICK q \in Seq(Scope), ws \in SUBSET Writes :
        q = SubSeq(ss, 1, m) /\ ws = ss[m + 1].writes
  BY <1>3, <1>4
<1>7. /\ Noted(q, ws) \in Seq(Scope) /\ Len(Noted(q, ws)) = m
      /\ \A i \in 1 .. m :
           Noted(q, ws)[i].writes = IF i = m THEN q[i].writes \cup ws ELSE q[i].writes
  <2>1. Len(q) = m
    BY <1>4, <1>6
  <2> QED BY <2>1, NotedFacts, ZenonT(60)
<1> QED BY <1>3, <1>4, <1>5, <1>6, <1>7

(* A level and its scope begin together.                                  *)
LEMMA OwnedBegun ==
  ASSUME NEW st \in Stacks, NEW d, NEW ss \in Seq(Scope), NEW u, NEW r,
         Owned(st, d, ss, u, r), NEW e \in Scope, e.writes = {}
  PROVE  /\ Owned(Append(st, {}), d, Append(ss, e), u, r)
         /\ st = <<>> => Owned(<<{}, {}>>, d, Append(ss, e), u, r)
         /\ st = <<>> => Owned(<<{}>>, d, ss, u, r)
<1>1. Len(st) \in Nat /\ Len(ss) \in Nat /\ Len(ss) <= Len(st)
  BY LenZero DEF Stacks, Owned
<1>2. PICK k \in Nat, m \in Nat : k = Len(st) /\ m = Len(ss)
  BY <1>1
<1>3. /\ Len(Append(st, {})) = k + 1 /\ Append(st, {})[k + 1] = {}
      /\ \A n \in 1 .. k : Append(st, {})[n] = st[n]
  BY <1>2, AppendProperties DEF Stacks
<1>4. /\ Len(Append(ss, e)) = m + 1 /\ Append(ss, e)[m + 1].writes = {}
      /\ \A n \in 1 .. m : Append(ss, e)[n] = ss[n]
  BY <1>2, AppendProperties
<1>5. Apart(Append(st, {}), d, u, r)
  BY <1>2, <1>3 DEF Apart, Owned
<1>6. Owned(Append(st, {}), d, Append(ss, e), u, r)
  <2>1. ASSUME NEW i \in 1 .. m + 1
        PROVE  /\ Append(ss, e)[i].writes \cap d = {} /\ Append(ss, e)[i].writes \cap u = {}
               /\ \A n \in 1 .. k + 1 :
                    n < (k + 1) - (m + 1) + i => Append(ss, e)[i].writes \cap Append(st, {})[n] = {}
    <3>1. CASE i = m + 1
      BY <3>1, <1>4
    <3>2. CASE i # m + 1
      <4>1. i \in 1 .. m /\ Append(ss, e)[i] = ss[i]
        BY <3>2, <1>4
      <4>2. ss[i].writes \cap d = {} /\ ss[i].writes \cap u = {}
        BY <4>1, <1>2 DEF Owned
      <4>3. ASSUME NEW n \in 1 .. k + 1, n < (k + 1) - (m + 1) + i
            PROVE  ss[i].writes \cap Append(st, {})[n] = {}
        <5>1. n \in 1 .. k /\ n < k - m + i
          BY <4>1, <4>3
        <5> QED BY <5>1, <4>1, <1>2, <1>3 DEF Owned
      <4> QED BY <4>1, <4>2, <4>3
    <3> QED BY <3>1, <3>2
  <2>2. m + 1 <= k + 1
    BY <1>1, <1>2
  <2> QED BY <2>1, <2>2, <1>3, <1>4, <1>5 DEF Owned
<1>7. ASSUME st = <<>>
      PROVE  Owned(<<{}, {}>>, d, Append(ss, e), u, r) /\ Owned(<<{}>>, d, ss, u, r)
  <2>1. k = 0 /\ m = 0
    BY <1>1, <1>2, <1>7
  <2>2. Len(<<{}, {}>>) = 2 /\ \A n \in 1 .. 2 : <<{}, {}>>[n] = {}
    OBVIOUS
  <2>3. Len(<<{}>>) = 1 /\ <<{}>>[1] = {}
    OBVIOUS
  <2>4. u \cap d = {} /\ r \cap d = {} /\ r \cap u = {}
    BY DEF Owned, Apart
  <2>5. Apart(<<{}, {}>>, d, u, r) /\ Apart(<<{}>>, d, u, r)
    BY <2>2, <2>3, <2>4 DEF Apart
  <2>6. Owned(<<{}, {}>>, d, Append(ss, e), u, r)
    BY <2>1, <2>2, <2>5, <1>4 DEF Owned
  <2>7. Owned(<<{}>>, d, ss, u, r)
    BY <2>1, <2>3, <2>5, <1>2 DEF Owned
  <2> QED BY <2>6, <2>7
<1> QED BY <1>6, <1>7

(* An unused write becomes one of the innermost level and scope, or durable. *)
LEMMA OwnedWritten ==
  ASSUME NEW st \in Stacks, NEW d, NEW ss \in Seq(Scope), NEW u, NEW r,
         Owned(st, d, ss, u, r), NEW w \in Writes, w \in u
  PROVE  /\ st # <<>> => Owned(Wrote(st, w), d, Noted(ss, {w}), u \ {w}, r)
         /\ st = <<>> => /\ Owned(<<>>, d \cup {w}, Noted(ss, {w}), u \ {w}, r)
                         /\ Owned(<<{w}>>, d, Noted(ss, {w}), u \ {w}, r)
<1>1. Len(st) \in Nat /\ Len(ss) \in Nat /\ Len(ss) <= Len(st)
  BY LenZero DEF Stacks, Owned
<1>2. PICK k \in Nat, m \in Nat : k = Len(st) /\ m = Len(ss) /\ m <= k
  BY <1>1
<1>3. /\ u \cap d = {} /\ r \cap d = {} /\ r \cap u = {}
      /\ \A n \in 1 .. k : st[n] \cap d = {} /\ st[n] \cap u = {} /\ st[n] \cap r = {}
  BY <1>2 DEF Owned, Apart
<1>4. \A i \in 1 .. m : ss[i].writes \cap d = {} /\ ss[i].writes \cap u = {}
  BY <1>2 DEF Owned
<1>5. \A i \in 1 .. m : \A n \in 1 .. k : n < k - m + i => ss[i].writes \cap st[n] = {}
  BY <1>2 DEF Owned
<1>6. ASSUME st # <<>>
      PROVE  Owned(Wrote(st, w), d, Noted(ss, {w}), u \ {w}, r)
  <2>1. PICK v : v = [st EXCEPT ![k] = @ \cup {w}]
    OBVIOUS
  <2>2. PICK tt : tt = Noted(ss, {w})
    OBVIOUS
  <2>3. k # 0 /\ k \in 1 .. k
    BY <1>2, <1>6, LenZero DEF Stacks
  <2>4. Len(v) = k /\ \A n \in 1 .. k : v[n] = IF n = k THEN st[n] \cup {w} ELSE st[n]
    <3>1. st[k] \in SUBSET Writes
      BY <2>3, <1>2, ElementOfSeq DEF Stacks
    <3>2. st[k] \cup {w} \in SUBSET Writes
      BY <3>1
    <3>3. PICK e \in SUBSET Writes : e = st[k] \cup {w}
      BY <3>2
    <3>4. v = [st EXCEPT ![k] = e]
      BY <2>1, <3>3
    <3>5. st \in Seq(SUBSET Writes) /\ k \in 1 .. Len(st)
      BY <2>3, <1>2 DEF Stacks
    <3>6. /\ Len([st EXCEPT ![k] = e]) = Len(st)
          /\ \A j \in 1 .. Len(st) : [st EXCEPT ![k] = e][j] = IF j = k THEN e ELSE st[j]
      BY <3>5, ExceptSeq
    <3> QED BY <3>3, <3>4, <3>6, <1>2
  <2>5. /\ Len(tt) = m
        /\ \A i \in 1 .. m : tt[i].writes = IF i = m THEN ss[i].writes \cup {w} ELSE ss[i].writes
    <3>1. {w} \in SUBSET Writes
      OBVIOUS
    <3>2. PICK ws \in SUBSET Writes : ws = {w}
      BY <3>1
    <3>3. /\ Len(Noted(ss, ws)) = Len(ss)
          /\ \A i \in 1 .. Len(ss) :
               Noted(ss, ws)[i].writes = IF i = Len(ss) THEN ss[i].writes \cup ws ELSE ss[i].writes
      BY NotedFacts
    <3> QED BY <3>2, <3>3, <2>2, <1>2
  <2>6. Apart(v, d, u \ {w}, r)
    <3>1. ASSUME NEW n \in 1 .. k
          PROVE  v[n] \cap d = {} /\ v[n] \cap (u \ {w}) = {} /\ v[n] \cap r = {}
      BY <2>4, <1>3
    <3>2. (u \ {w}) \cap d = {} /\ r \cap d = {} /\ r \cap (u \ {w}) = {}
      BY <1>3
    <3> QED BY <3>1, <3>2, <2>4 DEF Apart
  <2>7. ASSUME NEW i \in 1 .. m
        PROVE  /\ tt[i].writes \cap d = {} /\ tt[i].writes \cap (u \ {w}) = {}
               /\ \A n \in 1 .. k : n < k - m + i => tt[i].writes \cap v[n] = {}
    <3>1. tt[i].writes \cap d = {} /\ tt[i].writes \cap (u \ {w}) = {}
      BY <2>5, <1>3, <1>4
    <3>2. ASSUME NEW n \in 1 .. k, n < k - m + i PROVE tt[i].writes \cap v[n] = {}
      <4>1. n # k
        BY <3>2
      <4>2. v[n] = st[n] /\ ss[i].writes \cap st[n] = {} /\ w \notin st[n]
        BY <4>1, <2>4, <3>2, <1>3, <1>5
      <4> QED BY <4>2, <2>5
    <3> QED BY <3>1, <3>2
  <2>8. Owned(v, d, tt, u \ {w}, r)
    BY <2>4, <2>5, <2>6, <2>7, <1>2 DEF Owned
  <2> QED BY <2>1, <2>2, <2>8, <1>2 DEF Wrote
<1>7. ASSUME st = <<>>
      PROVE  /\ Owned(<<>>, d \cup {w}, Noted(ss, {w}), u \ {w}, r)
             /\ Owned(<<{w}>>, d, Noted(ss, {w}), u \ {w}, r)
  <2>1. k = 0 /\ m = 0
    BY <1>1, <1>2, <1>7
  <2>2. ss = <<>>
    BY <2>1, <1>2, LenZero
  <2>3. Noted(ss, {w}) = <<>>
    BY <2>2 DEF Noted
  <2>4. Len(<<{w}>>) = 1 /\ <<{w}>>[1] = {w} /\ Len(<<>>) = 0
    OBVIOUS
  <2>5. Apart(<<>>, d \cup {w}, u \ {w}, r) /\ Apart(<<{w}>>, d, u \ {w}, r)
    BY <1>3, <2>4 DEF Apart
  <2>6. <<{w}>> \in Stacks /\ <<>> \in Stacks
    BY DEF Stacks
  <2> QED BY <2>3, <2>5, <2>6, OwnedOutside
<1> QED BY <1>6, <1>7

(* A level and its scope end together.                                     *)
LEMMA OwnedLeft ==
  ASSUME NEW st \in Stacks, NEW d, NEW ss \in Seq(Scope), NEW u, NEW r, NEW x,
         Owned(st, d, ss, u, r), NEW k \in Nat, Len(st) = k + 1,
         NEW v \in Stacks, Len(v) = k, \A n \in 1 .. k : n < k => v[n] = st[n],
         Apart(v, d, u, x)
  PROVE  Owned(v, d, LeftOf(ss), u, x)
<1>1. Len(ss) \in Nat /\ Len(ss) <= k + 1
  BY LenZero DEF Owned
<1>2. CASE ss = <<>>
  <2>1. LeftOf(ss) = <<>>
    BY <1>2 DEF LeftOf
  <2> QED BY <2>1, OwnedOutside
<1>3. CASE ss # <<>>
  <2>1. PICK m \in Nat : Len(ss) = m + 1
    <3>1. Len(ss) # 0
      BY <1>3, LenZero
    <3>2. Len(ss) - 1 \in Nat /\ Len(ss) = (Len(ss) - 1) + 1
      BY <3>1, <1>1
    <3> QED BY <3>2
  <2>2. PICK l : l = LeftOf(ss)
    OBVIOUS
  <2>3. /\ Len(l) = m
        /\ \A i \in 1 .. m :
             l[i].writes = IF i = m THEN ss[i].writes \cup ss[m + 1].writes ELSE ss[i].writes
    <3>1. /\ Len(LeftOf(ss)) = m
          /\ \A i \in 1 .. m :
               LeftOf(ss)[i].writes = IF i = m THEN ss[i].writes \cup ss[m + 1].writes
                                      ELSE ss[i].writes
      BY <2>1, LeftFacts
    <3> QED BY <2>2, <3>1
  <2>4. /\ \A i \in 1 .. m + 1 : ss[i].writes \cap d = {} /\ ss[i].writes \cap u = {}
        /\ \A i \in 1 .. m + 1 : \A n \in 1 .. k + 1 :
             n < (k + 1) - (m + 1) + i => ss[i].writes \cap st[n] = {}
    BY <2>1 DEF Owned
  <2>5. ASSUME NEW i \in 1 .. m
        PROVE  /\ l[i].writes \cap d = {} /\ l[i].writes \cap u = {}
               /\ \A n \in 1 .. k : n < k - m + i => l[i].writes \cap v[n] = {}
    <3>1. i \in 1 .. m + 1 /\ m + 1 \in 1 .. m + 1
      OBVIOUS
    <3>2. l[i].writes \cap d = {} /\ l[i].writes \cap u = {}
      BY <3>1, <2>3, <2>4
    <3>3. ASSUME NEW n \in 1 .. k, n < k - m + i
          PROVE  l[i].writes \cap v[n] = {}
      <4>1. /\ n \in 1 .. k + 1 /\ n < k
            /\ n < (k + 1) - (m + 1) + i /\ n < (k + 1) - (m + 1) + (m + 1)
        BY <3>3
      <4>2. v[n] = st[n] /\ ss[i].writes \cap st[n] = {} /\ ss[m + 1].writes \cap st[n] = {}
        BY <4>1, <3>1, <2>4
      <4> QED BY <4>2, <2>3
    <3> QED BY <3>2, <3>3
  <2>6. m <= k
    BY <1>1, <2>1
  <2>7. Owned(v, d, l, u, x)
    BY <2>3, <2>5, <2>6 DEF Owned
  <2> QED BY <2>2, <2>7
<1> QED BY <1>2, <1>3

(* The writes of the innermost scope are in the innermost level only.      *)
LEMMA TopApart ==
  ASSUME NEW st \in Stacks, NEW d, NEW ss \in Seq(Scope), ss # <<>>, NEW u, NEW r,
         Owned(st, d, ss, u, r)
  PROVE  /\ Innermost(ss) \cap d = {} /\ Innermost(ss) \cap u = {}
         /\ \A n \in 1 .. Len(st) : n < Len(st) => Innermost(ss) \cap st[n] = {}
         /\ Len(st) # 0
<1>1. PICK k \in Nat, m \in Nat : k = Len(st) /\ m = Len(ss)
  BY LenZero DEF Stacks
<1>2. m \in 1 .. m /\ m <= k
  BY <1>1, LenZero DEF Owned
<1>3. /\ ss[m].writes \cap d = {} /\ ss[m].writes \cap u = {}
      /\ \A n \in 1 .. k : n < k - m + m => ss[m].writes \cap st[n] = {}
  BY <1>1, <1>2 DEF Owned
<1>4. \A n \in 1 .. k : n < k => n < k - m + m
  OBVIOUS
<1> QED BY <1>1, <1>2, <1>3, <1>4 DEF Innermost

(* A nested level ends: committed, rolled back, or rolled back together    *)
(* with the call that threw.                                               *)
LEMMA OwnedNested ==
  ASSUME NEW st \in Stacks, NEW d, NEW ss \in Seq(Scope), NEW u, NEW r,
         Owned(st, d, ss, u, r), Len(st) > 1
  PROVE  /\ Owned(Merged(st), d, LeftOf(ss), u, r)
         /\ Owned(Below(st), d, LeftOf(ss), u, r)
         /\ ss # <<>> => Owned(Below(st), d, LeftOf(ss), u, r \cup Innermost(ss))
<1>1. PICK k \in Nat : Len(st) = k + 1 /\ k # 0
  <2>1. PICK a \in Nat : a = Len(st) /\ a > 1
    BY LenZero DEF Stacks
  <2>2. a - 1 \in Nat /\ a = (a - 1) + 1 /\ a - 1 # 0
    BY <2>1
  <2> QED BY <2>1, <2>2
<1>2. PICK b \in Stacks, g \in Stacks : b = Below(st) /\ g = Merged(st)
  BY BelowStack
<1>3. k + 1 - 1 = k /\ (\A n \in 1 .. k : n < k => n \in 1 .. k + 1 - 2) /\ k \in 1 .. k
  BY <1>1
<1>4. /\ Len(b) = k /\ Len(g) = k
      /\ \A n \in 1 .. k : b[n] = st[n]
      /\ \A n \in 1 .. k : n < k => g[n] = st[n]
      /\ g[k] = st[k] \cup st[k + 1]
  <2>1. /\ Len(b) = Len(st) - 1 /\ Len(g) = Len(st) - 1
        /\ \A n \in 1 .. Len(st) - 1 : b[n] = st[n]
        /\ \A n \in 1 .. Len(st) - 2 : g[n] = st[n]
        /\ g[Len(st) - 1] = st[Len(st) - 1] \cup st[Len(st)]
    BY <1>2, BelowStack
  <2> QED BY <2>1, <1>1, <1>3
<1>5. /\ u \cap d = {} /\ r \cap d = {} /\ r \cap u = {}
      /\ \A n \in 1 .. k + 1 : st[n] \cap d = {} /\ st[n] \cap u = {} /\ st[n] \cap r = {}
  BY <1>1 DEF Owned, Apart
<1>6. Apart(b, d, u, r)
  BY <1>4, <1>5 DEF Apart
<1>7. Apart(g, d, u, r)
  <2>1. ASSUME NEW n \in 1 .. k PROVE g[n] \cap d = {} /\ g[n] \cap u = {} /\ g[n] \cap r = {}
    <3>1. CASE n = k
      BY <3>1, <1>1, <1>4, <1>5
    <3>2. CASE n # k
      BY <3>2, <1>1, <1>4, <1>5
    <3> QED BY <3>1, <3>2
  <2> QED BY <2>1, <1>4, <1>5 DEF Apart
<1>8. Owned(b, d, LeftOf(ss), u, r) /\ Owned(g, d, LeftOf(ss), u, r)
  BY <1>1, <1>4, <1>6, <1>7, OwnedLeft
<1>9. ASSUME ss # <<>> PROVE Owned(b, d, LeftOf(ss), u, r \cup Innermost(ss))
  <2>1. /\ Innermost(ss) \cap d = {} /\ Innermost(ss) \cap u = {}
        /\ \A n \in 1 .. k + 1 : n < k + 1 => Innermost(ss) \cap st[n] = {}
    <3>1. /\ Innermost(ss) \cap d = {} /\ Innermost(ss) \cap u = {}
          /\ \A n \in 1 .. Len(st) : n < Len(st) => Innermost(ss) \cap st[n] = {}
      BY <1>9, TopApart
    <3> QED BY <3>1, <1>1
  <2>2. Apart(b, d, u, r \cup Innermost(ss))
    BY <2>1, <1>1, <1>4, <1>5 DEF Apart
  <2> QED BY <2>2, <1>1, <1>4, OwnedLeft
<1> QED BY <1>2, <1>8, <1>9

(* The outermost level ends, committed or rolled back.                    *)
LEMMA OwnedOutermost ==
  ASSUME NEW st \in Stacks, NEW d, NEW ss \in Seq(Scope), NEW u, NEW r,
         Owned(st, d, ss, u, r), Len(st) = 1, NEW z \in {<<>>, <<{}>>}
  PROVE  /\ Owned(z, d \cup st[1], LeftOf(ss), u, r)
         /\ Owned(z, d, LeftOf(ss), u, r)
<1>1. z \in Stacks
  <2>1. <<>> \in Seq(SUBSET Writes) /\ <<{}>> \in Seq(SUBSET Writes)
    <3>1. {} \in SUBSET Writes
      OBVIOUS
    <3> QED BY <3>1
  <2> QED BY <2>1 DEF Stacks
<1>2. /\ Len(<<>>) = 0 /\ Len(<<{}>>) = 1 /\ <<{}>>[1] = {}
  OBVIOUS
<1>3. \A n \in 1 .. Len(z) : z[n] = {}
  BY <1>2
<1>4. /\ u \cap d = {} /\ r \cap d = {} /\ r \cap u = {}
      /\ st[1] \cap d = {} /\ st[1] \cap u = {} /\ st[1] \cap r = {}
  BY DEF Owned, Apart
<1>5. LeftOf(ss) = <<>>
  <2>1. CASE ss = <<>>
    BY <2>1 DEF LeftOf
  <2>2. CASE ss # <<>>
    <3>1. Len(ss) = 0 + 1
      <4>1. PICK m \in Nat : m = Len(ss) /\ m # 0
        BY <2>2, LenZero
      <4>2. m <= 1
        BY <4>1 DEF Owned
      <4>3. m = 1
        BY <4>1, <4>2
      <4> QED BY <4>1, <4>3
    <3>2. LeftOf(ss) \in Seq(Scope) /\ Len(LeftOf(ss)) = 0
      BY <3>1, LeftFacts
    <3> QED BY <3>2, LenZero
  <2> QED BY <2>1, <2>2
<1>6. Apart(z, d \cup st[1], u, r) /\ Apart(z, d, u, r)
  BY <1>3, <1>4 DEF Apart
<1> QED BY <1>1, <1>5, <1>6, OwnedOutside

(* The same when it is rolled back together with the call that threw.     *)
LEMMA OwnedRejected ==
  ASSUME NEW st \in Stacks, NEW d, NEW ss \in Seq(Scope), NEW u, NEW r,
         Owned(st, d, ss, u, r), Len(st) = 1, ss # <<>>, NEW z \in {<<>>, <<{}>>}
  PROVE  Owned(z, d, LeftOf(ss), u, r \cup Innermost(ss))
<1>1. Owned(z, d, LeftOf(ss), u, r)
  BY OwnedOutermost
<1>2. Innermost(ss) \cap d = {} /\ Innermost(ss) \cap u = {}
  BY TopApart
<1>3. \A n \in 1 .. Len(z) : z[n] = {}
  OBVIOUS
<1>4. Apart(z, d, u, r \cup Innermost(ss))
  BY <1>1, <1>2, <1>3 DEF Owned, Apart
<1> QED BY <1>1, <1>4 DEF Owned

(* A write that is pending is a level's. *)
LEMMA SplitPending ==
  ASSUME NEW tx \in Seq(Frame), NEW st \in Stacks, Split(tx, st), NEW x \in Pending(tx)
  PROVE  \E n \in 1 .. Len(st) : x \in st[n]
<1>1. PICK i \in DOMAIN tx : x \in tx[i].writes
  BY DEF Pending
<1>2. i \in 1 .. Len(tx) /\ tx # <<>>
  BY <1>1
<1>3. PICK p \in [1 .. Len(st) -> 1 .. Len(tx)] : Splits(tx, st, p)
  BY DEF Split
<1>4. st # <<>>
  BY <1>2, <1>3 DEF Splits
<1>5. PICK n \in 1 .. Len(st) : p[n] <= i /\ i <= LastFrame(tx, st, p, n)
  BY <1>2, <1>3, <1>4, FrameLevel
<1>6. st[n] = Held(tx, p[n], LastFrame(tx, st, p, n)) /\ p[n] \in 1 .. Len(tx)
  BY <1>3, <1>4, SplitFacts
<1>7. i \in p[n] .. LastFrame(tx, st, p, n)
  <2>1. LastFrame(tx, st, p, n) \in Int
    <3>1. CASE n = Len(st)
      BY <3>1, <1>2 DEF LastFrame
    <3>2. CASE n # Len(st)
      <4>1. n + 1 \in 1 .. Len(st)
        BY <3>2, <1>4, <1>5, LenZero DEF Stacks
      <4>2. p[n + 1] \in 1 .. Len(tx)
        BY <4>1, <1>3, <1>4, SplitFacts
      <4> QED BY <4>2, <3>2 DEF LastFrame
    <3> QED BY <3>1, <3>2
  <2> QED BY <2>1, <1>2, <1>5, <1>6
<1> QED BY <1>1, <1>6, <1>7, HeldMember

-----------------------------------------------------------------------------
(* What NestedTransaction lets a step do to the levels a and the durable   *)
(* writes d: its next-state relation, or nothing.                          *)
Moves(a, d, b, e) ==
  \/ b = a /\ e = d
  \/ b = Append(a, {}) /\ e = d
  \/ a = <<>> /\ b = <<{}, {}>> /\ e = d
  \/ \E w \in Writes : a # <<>> /\ b = Wrote(a, w) /\ e = d
  \/ \E w \in Writes : a = <<>> /\ b = a /\ e = d \cup {w}
  \/ \E w \in Writes : a = <<>> /\ b = <<{w}>> /\ e = d
  \/ Len(a) > 1 /\ b \in {Merged(a), Below(a)} /\ e = d
  \/ Len(a) = 1 /\ b \in {<<>>, <<{}>>} /\ e \in {d, d \cup a[1]}
  \/ b = <<>> /\ e = d /\ a # <<>>

(* A call that finds the levels st and the durable writes d and leaves the *)
(* levels z and the Connection t.                                          *)
Follows(st, d, z, t, ss, u, r) ==
  /\ Agrees(t, z)
  /\ Owned(z, t.durable, ss, u, r)
  /\ Moves(st, d, z, t.durable)

(* commit() throws and changes nothing, or it ends a level and its scope. *)
LEMMA CommitFollows ==
  ASSUME NoFailures, NEW s, NEW st, Agrees(s, st), NEW ss \in Seq(Scope), NEW u, NEW r,
         Owned(st, s.durable, ss, u, r), NEW o \in Commit(s)
  PROVE  \/ (s.level = 0 \/ s.rollbackOnly) /\ o.s = s /\ o.err # "none"
         \/ /\ s.level # 0 /\ ~ s.rollbackOnly /\ o.err = "none"
            /\ \E z : Follows(st, s.durable, z, o.s, LeftOf(ss), u, r)
<1>1. CASE s.level = 0 \/ s.rollbackOnly
  <2>1. o \in Throws(s)
    BY <1>1, CommitLands
  <2> QED BY <2>1, <1>1, ReturnsAndThrows
<1>2. CASE ~ (s.level = 0 \/ s.rollbackOnly)
  <2>1. st \in Stacks
    BY DEF Agrees
  <2>2. CASE Len(st) = 1
    <3>1. Lands(Commit(s), Reopened(s), s.durable \cup st[1])
      BY <1>2, <2>2, CommitLands
    <3>2. PICK z \in {<<>>, <<{}>>} : z = Reopened(s)
      BY DEF Reopened
    <3>3. o.err = "none" /\ Agrees(o.s, z) /\ o.s.durable = s.durable \cup st[1]
      BY <3>1, <3>2 DEF Lands
    <3>4. Owned(z, o.s.durable, LeftOf(ss), u, r)
      <4>1. Owned(z, s.durable \cup st[1], LeftOf(ss), u, r)
        BY <2>1, <2>2, OwnedOutermost
      <4> QED BY <4>1, <3>3
    <3>5. Moves(st, s.durable, z, o.s.durable)
      BY <2>2, <3>3 DEF Moves
    <3> QED BY <1>2, <3>3, <3>4, <3>5 DEF Follows
  <2>3. CASE Len(st) # 1
    <3>1. Len(st) > 1 /\ Lands(Commit(s), Merged(st), s.durable)
      BY <1>2, <2>3, CommitLands
    <3>2. PICK z : z = Merged(st)
      OBVIOUS
    <3>3. o.err = "none" /\ Agrees(o.s, z) /\ o.s.durable = s.durable
      BY <3>1, <3>2 DEF Lands
    <3>4. Owned(z, o.s.durable, LeftOf(ss), u, r)
      BY <2>1, <3>1, <3>2, <3>3, OwnedNested
    <3>5. Moves(st, s.durable, z, o.s.durable)
      BY <3>1, <3>2, <3>3 DEF Moves
    <3> QED BY <1>2, <3>3, <3>4, <3>5 DEF Follows
  <2> QED BY <2>2, <2>3
<1> QED BY <1>1, <1>2

(* rollBack() does too, and may reject the writes of the scope it ends.   *)
LEMMA RollBackFollows ==
  ASSUME NoFailures, NEW s, NEW st, Agrees(s, st), NEW ss \in Seq(Scope), NEW u, NEW r,
         Owned(st, s.durable, ss, u, r), NEW o \in RollBack(s)
  PROVE  \/ s.level = 0 /\ o.s = s
         \/ /\ s.level # 0 /\ o.err = "none"
            /\ \E z : /\ Follows(st, s.durable, z, o.s, LeftOf(ss), u, r)
                      /\ ss # <<>> => Follows(st, s.durable, z, o.s, LeftOf(ss), u,
                                              r \cup Innermost(ss))
<1>1. CASE s.level = 0
  <2>1. o \in Throws(s)
    BY <1>1, RollBackLands
  <2> QED BY <2>1, <1>1, ReturnsAndThrows
<1>2. CASE s.level # 0
  <2>1. st \in Stacks
    BY DEF Agrees
  <2>2. CASE Len(st) = 1
    <3>1. Lands(RollBack(s), Reopened(s), s.durable)
      BY <1>2, <2>2, RollBackLands
    <3>2. PICK z \in {<<>>, <<{}>>} : z = Reopened(s)
      BY DEF Reopened
    <3>3. o.err = "none" /\ Agrees(o.s, z) /\ o.s.durable = s.durable
      BY <3>1, <3>2 DEF Lands
    <3>4. /\ Owned(z, o.s.durable, LeftOf(ss), u, r)
          /\ ss # <<>> => Owned(z, o.s.durable, LeftOf(ss), u, r \cup Innermost(ss))
      <4>1. PICK d : d = s.durable
        OBVIOUS
      <4>2. Owned(st, d, ss, u, r) /\ z \in {<<>>, <<{}>>} /\ st \in Stacks
        BY <2>1, <3>2, <4>1
      <4>3. Owned(z, d, LeftOf(ss), u, r)
        BY <4>2, <2>2, OwnedOutermost
      <4>4. ASSUME ss # <<>> PROVE Owned(z, d, LeftOf(ss), u, r \cup Innermost(ss))
        BY <4>2, <4>4, <2>2, OwnedRejected, ZenonT(60)
      <4> QED BY <4>1, <4>3, <4>4, <3>3
    <3>5. Moves(st, s.durable, z, o.s.durable)
      BY <2>2, <3>3 DEF Moves
    <3> QED BY <1>2, <3>3, <3>4, <3>5 DEF Follows
  <2>3. CASE Len(st) # 1
    <3>1. Len(st) > 1 /\ Lands(RollBack(s), Below(st), s.durable)
      BY <1>2, <2>3, RollBackLands
    <3>2. PICK z : z = Below(st)
      OBVIOUS
    <3>3. o.err = "none" /\ Agrees(o.s, z) /\ o.s.durable = s.durable
      BY <3>1, <3>2 DEF Lands
    <3>4. /\ Owned(z, o.s.durable, LeftOf(ss), u, r)
          /\ ss # <<>> => Owned(z, o.s.durable, LeftOf(ss), u, r \cup Innermost(ss))
      BY <2>1, <3>1, <3>2, <3>3, OwnedNested
    <3>5. Moves(st, s.durable, z, o.s.durable)
      BY <3>1, <3>2, <3>3 DEF Moves
    <3> QED BY <1>2, <3>3, <3>4, <3>5 DEF Follows
  <2> QED BY <2>2, <2>3
<1> QED BY <1>1, <1>2

(* Without a level there is no scope to leave. *)
LEMMA LeftOutside ==
  ASSUME NEW s, NEW st, Agrees(s, st), NEW ss \in Seq(Scope), NEW d, NEW u, NEW r,
         Owned(st, d, ss, u, r), s.level = 0
  PROVE  ss = <<>> /\ LeftOf(ss) = ss
<1>1. st \in Stacks /\ Len(st) = 0
  BY DEF Agrees
<1>2. PICK m \in Nat : m = Len(ss)
  BY LenZero
<1>3. m <= 0
  BY <1>1, <1>2 DEF Owned
<1>4. m = 0
  BY <1>3
<1>5. ss = <<>>
  BY <1>2, <1>4, LenZero
<1> QED BY <1>5 DEF LeftOf

-----------------------------------------------------------------------------
(* The inductive invariant: the session holds the levels the Connection    *)
(* counts, and what is durable, rejected or a scope's is kept apart.       *)
NestInv ==
  /\ calling = "commitAll" => scopes = <<>>
  /\ \E st : Agrees(c, st) /\ Owned(st, c.durable, scopes, unused, rejected)

(* What a step does to the levels st.                                      *)
Step(st) ==
  /\ calling' = "commitAll" => scopes' = <<>>
  /\ \E z : Follows(st, c.durable, z, c', scopes', unused', rejected')

(* A new Connection has no level, and no write has an owner yet.          *)
LEMMA NestInit == Init => NestInv
<1> SUFFICES ASSUME Init PROVE NestInv
  OBVIOUS
<1>1. PICK a \in AutoCommit :
        c = [ autoCommit |-> a, connected |-> FALSE, platform |-> FALSE, level |-> 0,
              rollbackOnly |-> FALSE, inTx |-> FALSE, alive |-> TRUE, aborted |-> FALSE,
              tx |-> <<>>, durable |-> {} ]
  BY DEF Init
<1>2. c \in State
  <2>1. a \in BOOLEAN
    BY ConnectionAssumption
  <2> QED BY <1>1, <2>1 DEF State
<1>3. Agrees(c, <<>>)
  BY <1>1, <1>2, SplitEmpty DEF Agrees, Stacks
<1>4. Owned(<<>>, c.durable, scopes, unused, rejected)
  <2>1. c.durable = {} /\ scopes = <<>> /\ rejected = {}
    BY <1>1 DEF Init
  <2>2. Apart(<<>>, {}, unused, {})
    <3>1. Len(<<>>) = 0
      OBVIOUS
    <3> QED BY <3>1 DEF Apart
  <2>3. <<>> \in Stacks
    BY DEF Stacks
  <2> QED BY <2>1, <2>2, <2>3, OwnedOutside
<1>5. calling # "commitAll"
  BY DEF Init
<1> QED BY <1>3, <1>4, <1>5 DEF NestInv

(* The Connection's state changes, but not what it and the session agree on. *)
LEMMA StaySteps ==
  ASSUME NEW st, Agrees(c, st), Agrees(c', st), c'.durable = c.durable,
         Owned(st, c.durable, scopes', unused', rejected'),
         calling' = "commitAll" => scopes' = <<>>
  PROVE  Step(st)
BY DEF Step, Follows, Moves

(* connect(), alone or with the implicit transaction it begins.           *)
LEMMA ConnectSteps ==
  ASSUME NoFailures, TypeOK, NEW st, Agrees(c, st),
         Owned(st, c.durable, scopes, unused, rejected), CallConnect
  PROVE  Step(st)
<1>1. PICK o \in Connect(c) : c' = o.s
  BY DEF CallConnect
<1>2. /\ ~ c.connected /\ calling' # "commitAll" /\ scopes' = scopes
      /\ unused' = unused /\ rejected' = rejected
  BY DEF CallConnect
<1>3. st = <<>> /\ Agrees(c', IF c.autoCommit THEN <<>> ELSE <<{}>>) /\ c'.durable = c.durable
  BY <1>1, <1>2, ConnectLands DEF Lands
<1>4. CASE c.autoCommit
  <2>1. Agrees(c', st)
    BY <1>3, <1>4
  <2> QED BY <2>1, <1>2, <1>3, StaySteps
<1>5. CASE ~ c.autoCommit
  <2>1. Agrees(c', <<{}>>)
    BY <1>3, <1>5
  <2>2. scopes \in Seq(Scope) /\ st \in Stacks
    BY DEF TypeOK, Agrees
  <2>3. [kind |-> "manual", writes |-> {}] \in Scope
    BY DEF Scope
  <2>4. Owned(<<{}>>, c.durable, scopes, unused, rejected)
    BY <1>3, <2>2, <2>3, OwnedBegun
  <2>5. Moves(st, c.durable, <<{}>>, c.durable)
    <3>1. Append(<<>>, {}) = <<{}>>
      OBVIOUS
    <3> QED BY <3>1, <1>3 DEF Moves
  <2> QED BY <1>2, <1>3, <2>1, <2>4, <2>5 DEF Step, Follows
<1> QED BY <1>4, <1>5

(* executeStatement() hands an unused write to the innermost level.       *)
LEMMA ExecuteStatementSteps ==
  ASSUME NoFailures, TypeOK, NEW st, Agrees(c, st),
         Owned(st, c.durable, scopes, unused, rejected),
         NEW w \in Writes, CallExecuteStatement(w)
  PROVE  Step(st)
<1>1. PICK o \in ExecuteStatement(c, w) :
        /\ c' = o.s
        /\ o.err = "none" => unused' = unused \ {w} /\ scopes' = Noted(scopes, {w})
  BY DEF CallExecuteStatement
<1>2. calling' # "commitAll" /\ rejected' = rejected /\ w \in unused
  BY DEF CallExecuteStatement
<1>3. scopes \in Seq(Scope) /\ st \in Stacks
  BY DEF TypeOK, Agrees
<1>4. /\ o.err = "none"
      /\ \/ st # <<>> /\ o.s.durable = c.durable /\ Agrees(o.s, Wrote(st, w))
         \/ st = <<>> /\ o.s.durable = c.durable \cup {w} /\ Agrees(o.s, <<>>)
         \/ st = <<>> /\ o.s.durable = c.durable /\ Agrees(o.s, <<{w}>>)
  BY ExecuteStatementLands, Zenon
<1>5. unused' = unused \ {w} /\ scopes' = Noted(scopes, {w})
  BY <1>1, <1>4
<1>6. PICK d, u, r, ss :
        d = c.durable /\ u = unused /\ r = rejected /\ ss = scopes /\ ss \in Seq(Scope)
  BY <1>3
<1>7. Owned(st, d, ss, u, r) /\ w \in u
  BY <1>2, <1>6
<1>8. CASE st # <<>>
  <2>1. PICK z : z = Wrote(st, w)
    OBVIOUS
  <2>2. Agrees(o.s, z) /\ o.s.durable = d
    <3>1. /\ o.s.durable = c.durable
          /\ Agrees(o.s, Wrote(st, w))
      BY <1>4, <1>8
    <3> QED BY <3>1, <1>6, <2>1
  <2>3. Owned(z, d, Noted(ss, {w}), u \ {w}, r)
    <3>1. Owned(Wrote(st, w), d, Noted(ss, {w}), u \ {w}, r)
      BY <1>3, <1>6, <1>7, <1>8, OwnedWritten, Zenon
    <3> QED BY <3>1, <2>1
  <2>4. Moves(st, d, z, d)
    BY <1>8, <2>1 DEF Moves
  <2>5. Follows(st, d, z, c', scopes', unused', rejected')
    BY <1>1, <1>2, <1>5, <1>6, <2>2, <2>3, <2>4 DEF Follows
  <2> QED BY <1>2, <1>6, <2>5 DEF Step
<1>9. CASE st = <<>>
  <2>1. \/ o.s.durable = d \cup {w} /\ Agrees(o.s, <<>>)
        \/ o.s.durable = d /\ Agrees(o.s, <<{w}>>)
    BY <1>4, <1>6, <1>9
  <2>2. /\ Owned(<<>>, d \cup {w}, Noted(ss, {w}), u \ {w}, r)
        /\ Owned(<<{w}>>, d, Noted(ss, {w}), u \ {w}, r)
    BY <1>3, <1>6, <1>7, <1>9, OwnedWritten, Zenon
  <2>3. Moves(st, d, <<>>, d \cup {w}) /\ Moves(st, d, <<{w}>>, d)
    BY <1>9 DEF Moves
  <2>4. \/ Follows(st, d, <<>>, c', scopes', unused', rejected')
        \/ Follows(st, d, <<{w}>>, c', scopes', unused', rejected')
    BY <1>1, <1>2, <1>5, <1>6, <2>1, <2>2, <2>3 DEF Follows
  <2> QED BY <1>2, <1>6, <2>4 DEF Step
<1> QED BY <1>8, <1>9

(* beginTransaction(), called for itself or by transactional().           *)
LEMMA BeginTransactionSteps ==
  ASSUME NoFailures, TypeOK, NEW st, Agrees(c, st),
         Owned(st, c.durable, scopes, unused, rejected),
         NEW kind \in {"manual", "transactional"}, CallBeginTransaction(kind)
  PROVE  Step(st)
<1>1. PICK o \in BeginTransaction(c) :
        /\ c' = o.s
        /\ o.err = "none" => scopes' = Append(scopes, [kind |-> kind, writes |-> {}])
  BY DEF CallBeginTransaction
<1>2. calling' # "commitAll" /\ rejected' = rejected /\ unused' = unused
  BY DEF CallBeginTransaction
<1>3. scopes \in Seq(Scope) /\ st \in Stacks
  BY DEF TypeOK, Agrees
<1>4. PICK e \in Scope : e = [kind |-> kind, writes |-> {}] /\ e.writes = {}
  <2>1. [kind |-> kind, writes |-> {}] \in Scope
    BY DEF Scope
  <2> QED BY <2>1
<1>5. /\ o.err = "none" /\ o.s.durable = c.durable
      /\ Agrees(o.s, Append(st, {})) \/ (st = <<>> /\ Agrees(o.s, <<{}, {}>>))
  BY BeginTransactionLands
<1>6. scopes' = Append(scopes, e)
  BY <1>1, <1>4, <1>5
<1>7. /\ Owned(Append(st, {}), c.durable, Append(scopes, e), unused, rejected)
      /\ st = <<>> => Owned(<<{}, {}>>, c.durable, Append(scopes, e), unused, rejected)
  BY <1>3, <1>4, OwnedBegun
<1>8. /\ Moves(st, c.durable, Append(st, {}), c.durable)
      /\ st = <<>> => Moves(st, c.durable, <<{}, {}>>, c.durable)
  BY DEF Moves
<1>9. c'.durable = c.durable
  BY <1>1, <1>5
<1>10. CASE Agrees(o.s, Append(st, {}))
  BY <1>1, <1>2, <1>6, <1>7, <1>8, <1>9, <1>10 DEF Step, Follows
<1>11. CASE st = <<>> /\ Agrees(o.s, <<{}, {}>>)
  BY <1>1, <1>2, <1>6, <1>7, <1>8, <1>9, <1>11 DEF Step, Follows
<1> QED BY <1>5, <1>10, <1>11

(* Left is what the model calls the scopes that remain.                    *)
LEMMA LeftIs == Left = LeftOf(scopes)
BY DEF Left, LeftOf, Top

(* commit() by a caller that began its own transactions.                  *)
LEMMA CommitSteps ==
  ASSUME NoFailures, TypeOK, NEW st, Agrees(c, st),
         Owned(st, c.durable, scopes, unused, rejected), CallCommit
  PROVE  Step(st)
<1>1. PICK o \in Commit(c) :
        c' = o.s /\ scopes' = IF o.err = "none" \/ ~ c.rollbackOnly THEN LeftOf(scopes) ELSE scopes
  BY LeftIs DEF CallCommit
<1>2. calling' # "commitAll" /\ rejected' = rejected /\ unused' = unused
  BY DEF CallCommit
<1>3. scopes \in Seq(Scope)
  BY DEF TypeOK
<1>4. CASE c.level # 0 /\ ~ c.rollbackOnly
  <2>1. \E z : Follows(st, c.durable, z, o.s, LeftOf(scopes), unused, rejected)
    BY <1>3, <1>4, CommitFollows
  <2>2. scopes' = LeftOf(scopes)
    BY <1>1, <1>4
  <2> QED BY <2>1, <2>2, <1>1, <1>2 DEF Step
<1>5. CASE c.level = 0 \/ c.rollbackOnly
  <2>1. o.s = c /\ o.err # "none"
    BY <1>3, <1>5, CommitFollows
  <2>2. scopes' = scopes
    BY <1>1, <1>3, <1>5, <2>1, LeftOutside
  <2>3. c' = c
    BY <1>1, <2>1
  <2> QED BY <2>2, <2>3, <1>2, StaySteps
<1> QED BY <1>4, <1>5

(* rollBack() by such a caller.                                           *)
LEMMA RollBackSteps ==
  ASSUME NoFailures, TypeOK, NEW st, Agrees(c, st),
         Owned(st, c.durable, scopes, unused, rejected), CallRollBack
  PROVE  Step(st)
<1>1. PICK o \in RollBack(c) :
        /\ c' = o.s
        /\ scopes' = IF o.err = "none" \/ c.level < 2 \/ ~ o.s.connected
                     THEN LeftOf(scopes) ELSE scopes
  BY LeftIs DEF CallRollBack
<1>2. calling' # "commitAll" /\ rejected' = rejected /\ unused' = unused
  BY DEF CallRollBack
<1>3. scopes \in Seq(Scope)
  BY DEF TypeOK
<1>4. CASE c.level # 0
  <2>1. o.err = "none" /\ \E z : Follows(st, c.durable, z, o.s, LeftOf(scopes), unused, rejected)
    BY <1>3, <1>4, RollBackFollows
  <2>2. scopes' = LeftOf(scopes)
    BY <1>1, <2>1
  <2> QED BY <2>1, <2>2, <1>1, <1>2 DEF Step
<1>5. CASE c.level = 0
  <2>1. o.s = c
    BY <1>3, <1>5, RollBackFollows
  <2>2. scopes' = scopes
    BY <1>1, <1>3, <1>5, LeftOutside
  <2>3. c' = c
    BY <1>1, <2>1
  <2> QED BY <2>2, <2>3, <1>2, StaySteps
<1> QED BY <1>4, <1>5

(* transactional() threw: its scope is the innermost, and so is its level. *)
LEMMA RejectedSteps ==
  ASSUME NoFailures, TypeOK, NEW st, Agrees(c, st),
         Owned(st, c.durable, scopes, unused, rejected), scopes # <<>>,
         NEW o \in RollBackIfActive(c), c' = o.s, scopes' = LeftOf(scopes),
         rejected' = rejected \cup Top.writes, unused' = unused, calling' # "commitAll"
  PROVE  Step(st)
<1>1. scopes \in Seq(Scope) /\ st \in Stacks
  BY DEF TypeOK, Agrees
<1>2. c.level # 0
  <2>1. Len(st) # 0
    BY <1>1, TopApart
  <2> QED BY <2>1 DEF Agrees
<1>3. o \in RollBack(c)
  BY <1>2, RollBackLands
<1>4. \E z : Follows(st, c.durable, z, o.s, LeftOf(scopes), unused,
                     rejected \cup Innermost(scopes))
  BY <1>1, <1>2, <1>3, RollBackFollows
<1>5. rejected' = rejected \cup Innermost(scopes)
  BY DEF Top, Innermost
<1> QED BY <1>4, <1>5 DEF Step

(* transactional() whose callback returned, or threw.                     *)
LEMMA TransactionalSteps ==
  ASSUME NoFailures, TypeOK, NEW st, Agrees(c, st),
         Owned(st, c.durable, scopes, unused, rejected),
         TransactionalReturns \/ TransactionalThrows
  PROVE  Step(st)
<1>1. scopes \in Seq(Scope) /\ scopes # <<>>
  BY DEF TypeOK, TransactionalReturns, TransactionalThrows, Inside
<1>2. calling' # "commitAll" /\ unused' = unused /\ scopes' = LeftOf(scopes)
  BY LeftIs DEF TransactionalReturns, TransactionalThrows
<1>3. CASE TransactionalThrows
  <2>1. /\ \E r \in RollBackIfActive(c) : c' = r.s
        /\ rejected' = rejected \cup Top.writes
    BY <1>3 DEF TransactionalThrows
  <2> QED BY <2>1, <1>1, <1>2, RejectedSteps
<1>4. CASE TransactionalReturns
  <2>1. PICK o \in Commit(c) :
          IF o.err = "none"
          THEN c' = o.s /\ UNCHANGED rejected
          ELSE /\ \E r \in RollBackIfActive(o.s) : c' = r.s
               /\ rejected' = rejected \cup Top.writes
    BY <1>4 DEF TransactionalReturns
  <2>2. CASE o.err = "none"
    <3>1. \E z : Follows(st, c.durable, z, o.s, LeftOf(scopes), unused, rejected)
      BY <1>1, <2>2, CommitFollows
    <3>2. c' = o.s /\ rejected' = rejected
      BY <2>1, <2>2
    <3> QED BY <3>1, <3>2, <1>2 DEF Step
  <2>3. CASE o.err # "none"
    <3>1. o.s = c
      BY <1>1, <2>3, CommitFollows
    <3>2. /\ \E r \in RollBackIfActive(c) : c' = r.s
          /\ rejected' = rejected \cup Top.writes
      BY <2>1, <2>3, <3>1
    <3> QED BY <3>2, <1>1, <1>2, RejectedSteps
  <2> QED BY <2>2, <2>3
<1> QED BY <1>3, <1>4

(* setRollbackOnly() only marks the Connection.                           *)
LEMMA SetRollbackOnlySteps ==
  ASSUME NoFailures, TypeOK, NEW st, Agrees(c, st),
         Owned(st, c.durable, scopes, unused, rejected), CallSetRollbackOnly
  PROVE  Step(st)
<1>1. /\ c' = [c EXCEPT !.rollbackOnly = TRUE] /\ calling' # "commitAll"
      /\ unused' = unused /\ scopes' = scopes /\ rejected' = rejected
  BY DEF CallSetRollbackOnly
<1>2. PICK s, t : s \in State /\ s = c /\ t = c'
  BY DEF TypeOK
<1>3. /\ t \in State /\ t.level = s.level /\ t.tx = s.tx /\ t.inTx = s.inTx
      /\ t.connected = s.connected /\ t.alive = s.alive /\ t.aborted = s.aborted
      /\ t.platform = s.platform /\ t.durable = s.durable
  BY <1>1, <1>2 DEF State
<1>4. Agrees(c', st) /\ c'.durable = c.durable
  BY <1>2, <1>3 DEF Agrees, Known
<1> QED BY <1>1, <1>4, StaySteps

(* setAutoCommit() changes the flag and leaves every scope.               *)
LEMMA SetAutoCommitSteps ==
  ASSUME NoFailures, TypeOK, NEW st, Agrees(c, st),
         Owned(st, c.durable, scopes, unused, rejected), CallSetAutoCommit
  PROVE  Step(st)
<1>1. /\ c' = [c EXCEPT !.autoCommit = ~ @] /\ scopes' = <<>>
      /\ unused' = unused /\ rejected' = rejected
  BY DEF CallSetAutoCommit
<1>2. PICK s, t : s \in State /\ s = c /\ t = c'
  BY DEF TypeOK
<1>3. /\ t \in State /\ t.level = s.level /\ t.tx = s.tx /\ t.inTx = s.inTx
      /\ t.connected = s.connected /\ t.alive = s.alive /\ t.aborted = s.aborted
      /\ t.platform = s.platform /\ t.durable = s.durable
  BY <1>1, <1>2 DEF State
<1>4. Agrees(c', st) /\ c'.durable = c.durable
  BY <1>2, <1>3 DEF Agrees, Known
<1>5. Owned(st, c.durable, <<>>, unused, rejected)
  <2>1. st \in Stacks
    BY DEF Agrees
  <2> QED BY <2>1, OwnedOutside DEF Owned
<1> QED BY <1>1, <1>4, <1>5, StaySteps

(* commitAll() commits one level, when no scope is left.                  *)
LEMMA CommitAllSteps ==
  ASSUME NoFailures, TypeOK, NEW st, Agrees(c, st),
         Owned(st, c.durable, scopes, unused, rejected),
         calling = "commitAll" => scopes = <<>>, CommitAll
  PROVE  Step(st)
<1>1. PICK o \in Commit(c) : c' = o.s
  BY DEF CommitAll
<1>2. scopes = <<>> /\ scopes' = <<>> /\ rejected' = rejected /\ unused' = unused
  BY DEF CommitAll
<1>3. scopes \in Seq(Scope) /\ LeftOf(scopes) = <<>>
  BY <1>2 DEF TypeOK, LeftOf
<1>4. CASE c.level # 0 /\ ~ c.rollbackOnly
  <2>1. \E z : Follows(st, c.durable, z, o.s, LeftOf(scopes), unused, rejected)
    BY <1>3, <1>4, CommitFollows
  <2> QED BY <2>1, <1>1, <1>2, <1>3 DEF Step
<1>5. CASE c.level = 0 \/ c.rollbackOnly
  <2>1. o.s = c
    BY <1>3, <1>5, CommitFollows
  <2>2. c' = c
    BY <1>1, <2>1
  <2> QED BY <2>2, <1>2, StaySteps
<1> QED BY <1>4, <1>5

(* close() gives up every level and scope.                                *)
LEMMA CloseSteps ==
  ASSUME NoFailures, TypeOK, NEW st, Agrees(c, st),
         Owned(st, c.durable, scopes, unused, rejected), CallClose
  PROVE  Step(st)
<1>1. PICK o \in Close(c) : c' = o.s
  BY DEF CallClose
<1>2. c.connected /\ scopes' = <<>> /\ rejected' = rejected /\ unused' = unused
  BY DEF CallClose
<1>3. Agrees(c', <<>>) /\ c'.durable = c.durable
  BY <1>1, <1>2, CloseLands DEF Lands
<1>4. Owned(<<>>, c.durable, <<>>, unused, rejected)
  <2>1. Len(<<>>) = 0 /\ <<>> \in Stacks
    BY DEF Stacks
  <2>2. Apart(<<>>, c.durable, unused, rejected)
    BY <2>1 DEF Owned, Apart
  <2> QED BY <2>1, <2>2, OwnedOutside
<1>5. Moves(st, c.durable, <<>>, c.durable)
  BY DEF Moves
<1> QED BY <1>2, <1>3, <1>4, <1>5 DEF Step, Follows

(* Every step does to the levels what NestedTransaction allows.           *)
LEMMA NextSteps ==
  ASSUME NoFailures, TypeOK, NEW st, Agrees(c, st),
         Owned(st, c.durable, scopes, unused, rejected),
         calling = "commitAll" => scopes = <<>>, [Next]_vars
  PROVE  Step(st)
<1>1. CASE UNCHANGED vars
  BY <1>1, StaySteps DEF vars
<1> QED
  BY <1>1, ConnectSteps, ExecuteStatementSteps, BeginTransactionSteps, CommitSteps,
     RollBackSteps, TransactionalSteps, SetRollbackOnlySteps, SetAutoCommitSteps,
     CommitAllSteps, CloseSteps DEF Next

-----------------------------------------------------------------------------
(* The invariant is inductive.                                            *)
LEMMA NestInductive == NoFailures /\ TypeOK /\ NestInv /\ [Next]_vars => NestInv'
<1> SUFFICES ASSUME NoFailures, TypeOK, NestInv, [Next]_vars PROVE NestInv'
  OBVIOUS
<1>1. PICK st : Agrees(c, st) /\ Owned(st, c.durable, scopes, unused, rejected)
  BY DEF NestInv
<1>2. calling = "commitAll" => scopes = <<>>
  BY DEF NestInv
<1>3. Step(st)
  BY <1>1, <1>2, NextSteps
<1> QED BY <1>3 DEF Step, Follows, NestInv

(* It holds of every reachable state.                                     *)
LEMMA NestInvariance == NoFailures => (Spec => []NestInv)
<1> SUFFICES ASSUME NoFailures PROVE Spec => []NestInv
  OBVIOUS
<1>1. TypeOK /\ NestInv /\ [Next]_vars => NestInv'
  BY NestInductive
<1> QED BY <1>1, NestInit, TypeCorrect, PTL DEF Spec

(* It implies that the three agree and that transactional() is atomic.    *)
LEMMA NestInvAgrees == NestInv => LevelsAgree
<1> SUFFICES ASSUME NestInv PROVE LevelsAgree
  OBVIOUS
<1>1. PICK st : Agrees(c, st) /\ Owned(st, c.durable, scopes, unused, rejected)
  BY DEF NestInv
<1>2. PICK tx, k : tx = c.tx /\ k = c.level
  OBVIOUS
<1>3. /\ tx \in Seq(Frame) /\ k \in Nat /\ st \in Stacks /\ k = Len(st) /\ Split(tx, st)
      /\ (c.level # 0) <=> c.inTx
      /\ c.inTx <=> (c.tx # <<>>)
      /\ (st = <<>>) <=> (k = 0)
  BY <1>1, <1>2, AgreesTx DEF Agrees
<1>4. InStep
  <2>1. CASE k = 0
    <3>1. 1 .. k = {} /\ 2 .. k = {}
      BY <2>1
    <3> QED BY <3>1, <1>2, <1>3 DEF InStep
  <2>2. CASE k # 0
    <3>1. PICK p \in [1 .. Len(st) -> 1 .. Len(tx)] : Splits(tx, st, p)
      BY <1>3 DEF Split
    <3>2. st # <<>>
      BY <1>3, <2>2
    <3>3. \A n \in 1 .. k : Last(tx, n) = {p[n]}
      BY <1>3, <3>1, <3>2, SplitLast
    <3>4. \A m, n \in 1 .. k : m < n => p[m] < p[n]
      BY <1>3, <3>1, <3>2, SplitFacts
    <3>5. ASSUME NEW n \in 2 .. k, NEW i \in Last(tx, n - 1), NEW j \in Last(tx, n)
          PROVE  i < j
      <4>1. n - 1 \in 1 .. k /\ n \in 1 .. k /\ n - 1 < n
        BY <1>3
      <4>2. i = p[n - 1] /\ j = p[n]
        BY <3>3, <3>5, <4>1
      <4> QED BY <3>4, <4>1, <4>2
    <3>6. \A n \in 1 .. k : Last(tx, n) # {}
      BY <3>3
    <3> QED BY <3>5, <3>6, <1>2, <1>3 DEF InStep
  <2> QED BY <2>1, <2>2
<1>5. TransactionalAtomic
  <2>1. rejected \cap c.durable = {}
    BY <1>1 DEF Owned, Apart
  <2>2. \A x \in Pending(c.tx) : x \notin rejected
    <3>1. \A x \in Pending(tx) : \E n \in 1 .. Len(st) : x \in st[n]
      BY <1>3, SplitPending
    <3>2. \A n \in 1 .. Len(st) : st[n] \cap rejected = {}
      BY <1>1 DEF Owned, Apart
    <3> QED BY <3>1, <3>2, <1>2
  <2> QED BY <2>1, <2>2 DEF TransactionalAtomic
<1> QED BY <1>4, <1>5 DEF LevelsAgree

(* Where nothing fails, after every sequence of calls on every adapter but *)
(* mysql2, the level the Connection counts, the transaction its adapter    *)
(* believes in and the savepoints of the session agree, and transactional() *)
(* that threw has left none of its writes behind, pending or durable.      *)
THEOREM AlwaysLevelsAgree == NoFailures => (Spec => []LevelsAgree)
BY NestInvariance, NestInvAgrees, PTL

-----------------------------------------------------------------------------

(* What Connection calls Levels, with its state as the parameter.         *)
LEMMA LevelsAre == Levels = LevelsIn(c)
BY DEF Levels, LevelOf, LevelsIn, LevelIn

(* The same in the next state.                                            *)
LEMMA LevelsAreNext == Levels' = LevelsIn(c')
BY DEF Levels, LevelOf, LevelsIn, LevelIn

(* The levels that a Connection agrees with are the ones it defines.      *)
LEMMA AgreesLevels ==
  ASSUME NEW s, NEW st, Agrees(s, st)
  PROVE  LevelsIn(s) = st
BY LevelsSplit DEF Agrees

(* What a step may do to the levels is a step of NestedTransaction.       *)
LEMMA MovesPromised ==
  ASSUME NEW st, Levels = st, NEW z, Levels' = z, Moves(st, c.durable, z, c'.durable)
  PROVE  [Promise!NTNext]_<<Levels, c.durable>>
<1>1. CASE z = st /\ c'.durable = c.durable
  BY <1>1
<1>2. CASE z = Append(st, {}) /\ c'.durable = c.durable
  BY <1>2 DEF Promise!NTNext, Promise!Begin
<1>3. CASE st = <<>> /\ z = <<{}, {}>> /\ c'.durable = c.durable
  BY <1>3 DEF Promise!NTNext, Promise!Begin
<1>4. CASE \E w \in Writes : st # <<>> /\ z = Wrote(st, w) /\ c'.durable = c.durable
  BY <1>4 DEF Promise!NTNext, Promise!Write, Wrote
<1>5. CASE \E w \in Writes : st = <<>> /\ z = st /\ c'.durable = c.durable \cup {w}
  BY <1>5 DEF Promise!NTNext, Promise!Write
<1>6. CASE \E w \in Writes : st = <<>> /\ z = <<{w}>> /\ c'.durable = c.durable
  BY <1>6 DEF Promise!NTNext, Promise!Write
<1>7. CASE Len(st) > 1 /\ z \in {Merged(st), Below(st)} /\ c'.durable = c.durable
  BY <1>7 DEF Promise!NTNext, Promise!CommitNested, Promise!RollBackNested, Merged, Below
<1>8. CASE /\ Len(st) = 1 /\ z \in {<<>>, <<{}>>}
           /\ c'.durable \in {c.durable, c.durable \cup st[1]}
  BY <1>8 DEF Promise!NTNext, Promise!CommitOutermost, Promise!RollBackOutermost, Promise!Opened
<1>9. CASE z = <<>> /\ c'.durable = c.durable /\ st # <<>>
  BY <1>9 DEF Promise!NTNext, Promise!Abandon
<1> QED BY <1>1, <1>2, <1>3, <1>4, <1>5, <1>6, <1>7, <1>8, <1>9 DEF Moves

(* So every step of a Connection is one of NestedTransaction, or a stutter. *)
LEMMA StepPromised ==
  NoFailures /\ TypeOK /\ NestInv /\ [Next]_vars => [Promise!NTNext]_<<Levels, c.durable>>
<1> SUFFICES ASSUME NoFailures, TypeOK, NestInv, [Next]_vars
             PROVE  [Promise!NTNext]_<<Levels, c.durable>>
  OBVIOUS
<1>1. PICK st : Agrees(c, st) /\ Owned(st, c.durable, scopes, unused, rejected)
  BY DEF NestInv
<1>2. calling = "commitAll" => scopes = <<>>
  BY DEF NestInv
<1>3. Step(st)
  BY <1>1, <1>2, NextSteps
<1>4. PICK z : Agrees(c', z) /\ Moves(st, c.durable, z, c'.durable)
  BY <1>3 DEF Step, Follows
<1>5. Levels = st
  BY <1>1, LevelsAre, AgreesLevels
<1>6. Levels' = z
  BY <1>4, LevelsAreNext, AgreesLevels
<1> QED BY <1>4, <1>5, <1>6, MovesPromised

(* A new Connection starts where NestedTransaction does.                  *)
LEMMA InitPromised == Init => Promise!NTInit
<1> SUFFICES ASSUME Init PROVE Promise!NTInit
  OBVIOUS
<1>1. PICK a \in AutoCommit :
        c = [ autoCommit |-> a, connected |-> FALSE, platform |-> FALSE, level |-> 0,
              rollbackOnly |-> FALSE, inTx |-> FALSE, alive |-> TRUE, aborted |-> FALSE,
              tx |-> <<>>, durable |-> {} ]
  BY DEF Init
<1>2. c \in State
  <2>1. a \in BOOLEAN
    BY ConnectionAssumption
  <2> QED BY <1>1, <2>1 DEF State
<1>3. Agrees(c, <<>>) /\ c.durable = {}
  BY <1>1, <1>2, SplitEmpty DEF Agrees, Stacks
<1>4. Levels = <<>>
  BY <1>3, LevelsAre, AgreesLevels
<1> QED BY <1>3, <1>4 DEF Promise!NTInit

(* Where nothing fails, a Connection on every adapter but mysql2 is one of *)
(* the abstract nested transactions: a level undoes the writes made since  *)
(* it began and no others, whatever savepoints the server still keeps, and *)
(* only the end of the outermost level makes writes durable, all or none.  *)
THEOREM Implements == NoFailures => (Spec => KeepsPromise)
<1> SUFFICES ASSUME NoFailures PROVE Spec => KeepsPromise
  OBVIOUS
<1>1. TypeOK /\ NestInv /\ [Next]_vars => [Promise!NTNext]_<<Levels, c.durable>>
  BY StepPromised
<1>2. Spec => []NestInv
  BY NestInvariance
<1> QED BY <1>1, <1>2, InitPromised, TypeCorrect, PTL DEF Spec, KeepsPromise, Promise!NTSpec
=============================================================================
