------------------------ MODULE OneTimePasswords_proofs ------------------------
(***************************************************************************)
(* What OneTimePasswords guarantees for any number of processes and codes,  *)
(* any valid period and any number of permitted attempts.                   *)
(***************************************************************************)
EXTENDS OneTimePasswords, FiniteSetTheorems, TLAPS

USE OTPAssumption

----------------------------------------------------------------------------
(* Types *)

Label     == {"idle", "reset", "check", "revoke", "incr", "expire", "get", "set"}
Operation == Verifying \cup {"none", "inspect", "consume", "submit", "sent"}

\* What is in Redis, and the clock
StoreOK ==
    /\ now \in Nat /\ failures \in Nat
    /\ code \in CodeData /\ (code.id # None => now < code.expireAt)
    /\ attempts \in Nat /\ countEnds \in Nat

\* What a process keeps
LocalsOK ==
    /\ pc \in [Process -> Label] /\ op \in [Process -> Operation]
    /\ mem \in [Process -> CodeData]

CountersOK == generated \in Code \cup {None} /\ delivered \in 0 .. generated

HistoryOK ==
    /\ wrong \in [Code -> Nat]
    /\ used \subseteq Code /\ reused \subseteq Code /\ overlapped \subseteq Code

\* A process that is about to write or to count has read a code.
HasRead == \A p \in Process : pc[p] \in {"set", "incr"} => mem[p].id \in Code

\* The type invariant by kind of variable
LEMMA TypeParts == TypeOK <=> StoreOK /\ LocalsOK /\ CountersOK /\ HistoryOK
  BY DEF TypeOK, StoreOK, LocalsOK, CountersOK, HistoryOK, Label, Operation

\* TypeOK and what it takes to keep it
TypeInv == StoreOK /\ LocalsOK /\ CountersOK /\ HistoryOK /\ HasRead

\* Codes are numbered from 1.
LEMMA CodeType == Code \subseteq Nat /\ None \notin Code /\ NoCode \in CodeData
  BY DEF Code, None, NoCode, CodeData

\* The bounds leave a number for the next code.
LEMMA WithinCode ==
    ASSUME NEW g \in Nat, NEW t, NEW f, Within(g + 1, t, f)
    PROVE  g + 1 \in Code
  BY DEF Within, Code

\* The counters count codes.
LEMMA CountersType ==
    ASSUME CountersOK
    PROVE  generated \in Nat /\ delivered \in Nat
  BY CodeType DEF CountersOK, None

\* A process that returns keeps nothing.
LEMMA ReturnType ==
    ASSUME LocalsOK, HasRead, NEW p \in Process, Return(p)
    PROVE  LocalsOK' /\ HasRead'
  BY CodeType DEF LocalsOK, HasRead, Return, Keep, Label, Operation

\* A step to another command that keeps something
LEMMA GotoKeepType ==
    ASSUME LocalsOK, HasRead, NEW p \in Process, NEW from, NEW to \in Label, NEW o \in Operation,
           NEW m \in CodeData, Goto(p, from, to), Keep(p, o, m),
           to \in {"set", "incr"} => m.id \in Code
    PROVE  LocalsOK' /\ HasRead'
  BY DEF LocalsOK, HasRead, Goto, Keep

\* A step to another command
LEMMA GotoType ==
    ASSUME LocalsOK, HasRead, NEW p \in Process, NEW from, NEW to \in Label \ {"set", "incr"},
           Goto(p, from, to), UNCHANGED locals
    PROVE  LocalsOK' /\ HasRead'
  BY DEF LocalsOK, HasRead, Goto, locals

\* The first step of an operation
LEMMA BeginType ==
    ASSUME LocalsOK, HasRead, NEW p \in Process, NEW o \in Operation,
           NEW first \in Label \ {"set", "incr"}, Begin(p, o, first)
    PROVE  LocalsOK' /\ HasRead' /\ StoreOK' = StoreOK /\ HistoryOK' = HistoryOK
  <1>1. LocalsOK' /\ HasRead'
    BY DEF LocalsOK, HasRead, Begin, Goto
  <1>2. StoreOK' = StoreOK
    BY DEF StoreOK, Begin, store
  <1>3. HistoryOK' = HistoryOK
    BY DEF HistoryOK, Begin, history
  <1> QED
    BY <1>1, <1>2, <1>3

\* What an operation makes of the code it has read is a code with the same ID and the same end.
LEMMA ChangedType ==
    ASSUME LocalsOK, NEW p \in Process, NEW c \in Changed(p)
    PROVE  /\ c \in CodeData
           /\ c.id = mem[p].id /\ c.expireAt = mem[p].expireAt
           /\ mem[p].consumed => c.consumed
           /\ op[p] \in Verifying => c.consumed
  <1>1. mem[p] \in CodeData
    BY DEF LocalsOK
  <1>2. CASE op[p] = "submit"
    <2>1. PICK g \in {"wrong", "right"} : c = [mem[p] EXCEPT !.submitted = g]
      BY <1>2 DEF Changed
    <2> QED
      BY <1>1, <1>2, <2>1 DEF CodeData, Verifying
  <1>3. CASE op[p] = "sent"
    <2>1. c = mem[p]
      BY <1>3 DEF Changed
    <2> QED
      BY <1>1, <1>3, <2>1 DEF Verifying
  <1>4. CASE op[p] \notin {"submit", "sent"}
    <2>1. c = [mem[p] EXCEPT !.consumed = TRUE]
      BY <1>4 DEF Changed
    <2> QED
      BY <1>1, <2>1 DEF CodeData
  <1> QED
    BY <1>2, <1>3, <1>4

\* A call begins.
LEMMA CallType ==
    ASSUME TypeInv, NEW p \in Process, Call(p)
    PROVE  TypeInv'
  <1>0. StoreOK /\ LocalsOK /\ CountersOK /\ HistoryOK /\ HasRead
    BY DEF TypeInv
  <1>1. generated \in Nat /\ delivered \in Nat
    BY <1>0, CountersType
  <1>2. CASE GenerateSet(p)
    <2>1. generated' = generated + 1 /\ generated' \in Code
      BY <1>1, <1>2, WithinCode DEF GenerateSet
    <2>2. LocalsOK' /\ HasRead'
      BY <1>0, <1>2 DEF LocalsOK, HasRead, GenerateSet, Goto, Label, Operation
    <2>3. StoreOK'
      <3>1. code' = [NoCode EXCEPT !.id = generated', !.expireAt = now + ValidPeriod]
        BY <1>2 DEF GenerateSet
      <3>2. now \in Nat /\ now + ValidPeriod \in Nat /\ now < now + ValidPeriod
        BY <1>0 DEF StoreOK
      <3>3. code' \in CodeData /\ code'.expireAt = now + ValidPeriod
        BY <2>1, <3>1, <3>2 DEF NoCode, CodeData
      <3> QED
        BY <1>0, <1>2, <3>2, <3>3 DEF StoreOK, GenerateSet
    <2>4. CountersOK'
      BY <1>0, <1>1, <1>2, <2>1 DEF CountersOK, GenerateSet
    <2>5. HistoryOK'
      BY <1>0, <1>2 DEF HistoryOK, GenerateSet
    <2> QED
      BY <2>2, <2>3, <2>4, <2>5 DEF TypeInv
  <1>3. CASE BeginVerify(p) \/ BeginVerifySubmitted(p) \/ BeginConsume(p) \/ BeginSubmit(p)
    <2>1. CountersOK'
      BY <1>0, <1>3
         DEF CountersOK, BeginVerify, BeginVerifySubmitted, BeginConsume, BeginSubmit, Begin
    <2>2. /\ "verify" \in Operation /\ "verifySubmitted" \in Operation
          /\ "consume" \in Operation /\ "submit" \in Operation
          /\ "check" \in Label \ {"set", "incr"} /\ "get" \in Label \ {"set", "incr"}
      BY DEF Operation, Label, Verifying
    <2>3. LocalsOK' /\ HasRead' /\ StoreOK' = StoreOK /\ HistoryOK' = HistoryOK
      BY <1>0, <1>3, <2>2, BeginType
         DEF BeginVerify, BeginVerifySubmitted, BeginConsume, BeginSubmit
    <2> QED
      BY <1>0, <2>1, <2>3 DEF TypeInv
  <1>4. CASE BeginDelivered(p)
    <2>1. delivered < generated /\ delivered' = delivered + 1 /\ generated' = generated
      BY <1>4 DEF BeginDelivered, Begin
    <2>2. CountersOK'
      BY <1>0, <1>1, <2>1 DEF CountersOK
    <2>3. "sent" \in Operation /\ "get" \in Label \ {"set", "incr"}
      BY DEF Operation, Label
    <2>4. LocalsOK' /\ HasRead' /\ StoreOK' = StoreOK /\ HistoryOK' = HistoryOK
      BY <1>0, <1>4, <2>3, BeginType DEF BeginDelivered
    <2> QED
      BY <1>0, <2>2, <2>4 DEF TypeInv
  <1> QED
    BY <1>2, <1>3, <1>4 DEF Call

\* Only the number of comparisons that wait to be counted has to be bounded for this.
LEMMA PendingType ==
    ASSUME NEW c \in Code
    PROVE  Pending(c) \in Nat
  <1> DEFINE S == {p \in Process : pc[p] = "incr" /\ mem[p].id = c}
  <1>1. IsFiniteSet(S)
    BY FS_Subset
  <1> QED
    BY <1>1, FS_CardinalityType DEF Pending

\* A process reads the code.
LEMMA GetCodeType ==
    ASSUME TypeInv, NEW p \in Process, GetCode(p)
    PROVE  TypeInv'
  <1>0. StoreOK /\ LocalsOK /\ CountersOK /\ HistoryOK /\ HasRead
    BY DEF TypeInv
  <1>1. StoreOK' /\ CountersOK'
    <2>1. UNCHANGED <<now, store, generated, delivered, failures>>
      BY DEF GetCode
    <2>2. StoreOK'
      BY <1>0, <2>1 DEF StoreOK, store
    <2>3. CountersOK'
      BY <1>0, <2>1 DEF CountersOK
    <2> QED
      BY <2>2, <2>3
  <1>2. ASSUME wrong' \in [Code -> Nat] PROVE HistoryOK'
    BY <1>0, <1>2 DEF HistoryOK, GetCode
  <1>3. code \in CodeData /\ (~NothingToDo(p) => code.id \in Code)
    BY <1>0 DEF StoreOK, CodeData, NothingToDo
  <1>4. CASE Return(p) /\ UNCHANGED wrong
    <2>1. LocalsOK' /\ HasRead'
      BY <1>0, <1>4, ReturnType
    <2>2. wrong' \in [Code -> Nat]
      BY <1>0, <1>4 DEF HistoryOK
    <2> QED
      BY <1>1, <1>2, <2>1, <2>2 DEF TypeInv
  <1>5. CASE /\ ~NothingToDo(p) /\ Goto(p, "get", "incr")
             /\ wrong' = [wrong EXCEPT ![code.id] = @ + 1]
             /\ Keep(p, "verify", [NoCode EXCEPT !.id = code.id])
    <2>1. wrong' \in [Code -> Nat]
      BY <1>0, <1>3, <1>5 DEF HistoryOK
    <2> DEFINE m == [NoCode EXCEPT !.id = code.id]
    <2>2. m \in CodeData /\ m.id \in Code
      BY <1>3, <1>5 DEF NoCode, CodeData
    <2>3. "incr" \in Label /\ "verify" \in Operation
      BY DEF Label, Operation, Verifying
    <2> HIDE DEF m
    <2>4. LocalsOK' /\ HasRead'
      BY <1>0, <1>5, <2>2, <2>3, GotoKeepType DEF m
    <2> QED
      BY <1>1, <1>2, <2>1, <2>4 DEF TypeInv
  <1>6. CASE /\ ~NothingToDo(p) /\ Goto(p, "get", "set") /\ UNCHANGED wrong
             /\ Keep(p, IF op[p] \in Verifying THEN "verify" ELSE op[p], code)
    <2> DEFINE o == IF op[p] \in Verifying THEN "verify" ELSE op[p]
    <2>1. o \in Operation /\ "set" \in Label
      BY <1>0 DEF LocalsOK, Operation, Verifying, Label
    <2>2. wrong' \in [Code -> Nat]
      BY <1>0, <1>6 DEF HistoryOK
    <2> HIDE DEF o
    <2>3. LocalsOK' /\ HasRead'
      BY <1>0, <1>3, <1>6, <2>1, GotoKeepType DEF o
    <2> QED
      BY <1>1, <1>2, <2>2, <2>3 DEF TypeInv
  <1> QED
    BY <1>4, <1>5, <1>6 DEF GetCode

\* A process writes the code back.
LEMMA UpdateCodeType ==
    ASSUME TypeInv, NEW p \in Process, UpdateCode(p)
    PROVE  TypeInv'
  <1>0. StoreOK /\ LocalsOK /\ CountersOK /\ HistoryOK /\ HasRead
    BY DEF TypeInv
  <1>1. mem[p].id \in Code /\ pc[p] = "set"
    BY <1>0 DEF HasRead, UpdateCode
  <1>2. LocalsOK' /\ HasRead'
    <2>1. "check" \in Label /\ "inspect" \in Operation /\ NoCode \in CodeData
      BY CodeType DEF Label, Operation
    <2>2. CASE Return(p)
      BY <1>0, <2>2, ReturnType
    <2>3. CASE Goto(p, "set", "check") /\ Keep(p, "inspect", NoCode)
      BY <1>0, <2>1, <2>3, GotoKeepType
    <2> QED
      BY <2>2, <2>3 DEF UpdateCode
  <1>3. CountersOK'
    BY <1>0 DEF CountersOK, UpdateCode
  <1>4. CASE now < mem[p].expireAt
    <2>1. code' \in Changed(p) /\ Recorded(p)
      BY <1>4 DEF UpdateCode
    <2>2. code' \in CodeData /\ code'.expireAt = mem[p].expireAt
      BY <1>0, <2>1, ChangedType
    <2>3. StoreOK'
      BY <1>0, <1>4, <2>2 DEF StoreOK, UpdateCode
    <2>4. HistoryOK'
      BY <1>0, <1>1, <2>1 DEF HistoryOK, Recorded, UpdateCode
    <2> QED
      BY <1>2, <1>3, <2>3, <2>4 DEF TypeInv
  <1>5. CASE ~(now < mem[p].expireAt)
    <2>1. UNCHANGED <<code, used, reused, overlapped, wrong, now, attempts, countEnds, failures>>
      BY <1>5 DEF UpdateCode
    <2>2. StoreOK' /\ HistoryOK'
      BY <1>0, <2>1 DEF StoreOK, HistoryOK
    <2> QED
      BY <1>2, <1>3, <2>2 DEF TypeInv
  <1> QED
    BY <1>4, <1>5

\* The other steps of a process
LEMMA StepType ==
    ASSUME TypeInv, NEW p \in Process, Step(p)
    PROVE  TypeInv'
  <1>0. StoreOK /\ LocalsOK /\ CountersOK /\ HistoryOK /\ HasRead
    BY DEF TypeInv
  <1>1. ASSUME UNCHANGED <<generated, delivered>> PROVE CountersOK'
    BY <1>0, <1>1 DEF CountersOK
  <1>2. ASSUME UNCHANGED <<wrong, used, reused, overlapped>> PROVE HistoryOK'
    BY <1>0, <1>2 DEF HistoryOK
  <1>3. ASSUME UNCHANGED <<now, code, failures>>, attempts' \in Nat, countEnds' \in Nat
        PROVE  StoreOK'
    BY <1>0, <1>3 DEF StoreOK
  <1>4. attempts \in Nat /\ countEnds \in Nat /\ now \in Nat /\ failures \in Nat
    BY <1>0 DEF StoreOK
  <1>5. /\ {"get", "expire", "check", "revoke"} \subseteq Label \ {"set", "incr"}
        /\ "none" \in Operation /\ NoCode \in CodeData
    BY CodeType DEF Label, Operation
  <1>6. CASE ResetFailedAttempts(p)
    <2>1. LocalsOK' /\ HasRead'
      BY <1>0, <1>5, <1>6, GotoType DEF ResetFailedAttempts
    <2>2. StoreOK' /\ CountersOK'
      BY <1>1, <1>3, <1>6 DEF ResetFailedAttempts
    <2>3. \A c \in Code : Pending(c) \in Nat
      BY PendingType
    <2>4. HistoryOK'
      BY <1>0, <1>6, <2>3 DEF HistoryOK, ResetFailedAttempts
    <2> QED
      BY <2>1, <2>2, <2>4 DEF TypeInv
  <1>7. CASE ResetFails(p)
    <2>1. LocalsOK' /\ HasRead'
      BY <1>0, <1>5, <1>7, GotoType DEF ResetFails
    <2>2. StoreOK' /\ CountersOK' /\ HistoryOK'
      BY <1>0, <1>1, <1>2, <1>7 DEF StoreOK, ResetFails, store, history
    <2> QED
      BY <2>1, <2>2 DEF TypeInv
  <1>8. CASE CheckFailedAttempts(p)
    <2>1. UNCHANGED <<now, code, attempts, countEnds, generated, delivered, wrong, used, reused,
                      overlapped, failures>>
      BY <1>8 DEF CheckFailedAttempts, store, history
    <2>2. LocalsOK' /\ HasRead'
      <3>1. CASE Goto(p, "check", "revoke") /\ Keep(p, "none", NoCode)
        BY <1>0, <1>5, <3>1, GotoKeepType
      <3>2. CASE Goto(p, "check", "get") /\ UNCHANGED locals
        BY <1>0, <1>5, <3>2, GotoType
      <3>3. CASE Return(p)
        BY <1>0, <3>3, ReturnType
      <3> QED
        BY <1>8, <3>1, <3>2, <3>3 DEF CheckFailedAttempts
    <2> QED
      BY <1>1, <1>2, <1>3, <1>4, <2>1, <2>2 DEF TypeInv
  <1>9. CASE Revoke(p)
    <2>1. LocalsOK' /\ HasRead'
      BY <1>0, <1>9, ReturnType DEF Revoke
    <2>2. StoreOK'
      BY <1>0, <1>5, <1>9 DEF StoreOK, Revoke, NoCode
    <2>3. CountersOK' /\ HistoryOK'
      BY <1>1, <1>2, <1>9 DEF Revoke, history
    <2> QED
      BY <2>1, <2>2, <2>3 DEF TypeInv
  <1>10. CASE IncrementFailedAttempts(p)
    <2>1. LocalsOK' /\ HasRead'
      BY <1>0, <1>5, <1>10, GotoKeepType DEF IncrementFailedAttempts
    <2>2. attempts' \in Nat /\ countEnds' \in Nat
      BY <1>4, <1>10 DEF IncrementFailedAttempts
    <2>3. StoreOK' /\ CountersOK' /\ HistoryOK'
      BY <1>1, <1>2, <1>3, <1>10, <2>2 DEF IncrementFailedAttempts
    <2> QED
      BY <2>1, <2>3 DEF TypeInv
  <1>11. CASE ExpireFailedAttempts(p)
    <2>1. LocalsOK' /\ HasRead'
      BY <1>0, <1>11, ReturnType DEF ExpireFailedAttempts
    <2>2. attempts' \in Nat /\ countEnds' \in Nat
      BY <1>4, <1>11 DEF ExpireFailedAttempts
    <2>3. StoreOK' /\ CountersOK' /\ HistoryOK'
      BY <1>1, <1>2, <1>3, <1>11, <2>2 DEF ExpireFailedAttempts, history
    <2> QED
      BY <2>1, <2>3 DEF TypeInv
  <1>12. CASE Crash(p)
    <2>1. LocalsOK' /\ HasRead'
      BY <1>0, <1>12, ReturnType DEF Crash
    <2>2. StoreOK' /\ CountersOK' /\ HistoryOK'
      BY <1>0, <1>1, <1>2, <1>12 DEF StoreOK, Crash, store, history
    <2> QED
      BY <2>1, <2>2 DEF TypeInv
  <1> QED
    BY <1>6, <1>7, <1>8, <1>9, <1>10, <1>11, <1>12, GetCodeType, UpdateCodeType DEF Step

\* The clock ends the life of a code and of the counter.
LEMMA TickType ==
    ASSUME TypeInv, Tick
    PROVE  TypeInv'
  <1>0. StoreOK /\ LocalsOK /\ CountersOK /\ HistoryOK /\ HasRead
    BY DEF TypeInv
  <1>1. code' = NoCode \/ (code' = code /\ code.expireAt > now')
    <2>1. now' \in Nat /\ code.expireAt \in Nat
      BY <1>0 DEF StoreOK, CodeData, Tick
    <2> QED
      BY <2>1 DEF Tick
  <1>2. attempts' \in Nat /\ countEnds' \in Nat
    BY <1>0 DEF StoreOK, Tick
  <1>3. now' = now + 1 /\ failures' = failures
    BY DEF Tick
  <1>4. StoreOK'
    <2>1. now \in Nat /\ failures \in Nat /\ code \in CodeData /\ code.expireAt \in Nat
      BY <1>0 DEF StoreOK, CodeData
    <2>2. now' \in Nat
      BY <1>3, <2>1
    <2>3. code' \in CodeData /\ (code'.id # None => now' < code'.expireAt)
      <3>1. CASE code' = NoCode
        BY <3>1, CodeType DEF NoCode
      <3>2. CASE code' = code /\ code.expireAt > now'
        BY <2>1, <2>2, <3>2
      <3> QED
        BY <1>1, <3>1, <3>2
    <2> QED
      BY <1>2, <1>3, <2>1, <2>2, <2>3 DEF StoreOK
  <1>5. UNCHANGED <<pc, op, mem, generated, delivered, wrong, used, reused, overlapped>>
    BY DEF Tick, locals, history
  <1>6. LocalsOK' /\ HasRead' /\ CountersOK' /\ HistoryOK'
    BY <1>0, <1>5 DEF LocalsOK, HasRead, CountersOK, HistoryOK
  <1> QED
    BY <1>4, <1>6 DEF TypeInv

\* TypeInv is inductive.
LEMMA TypeStep == TypeInv /\ [Next]_vars => TypeInv'
  <1> SUFFICES ASSUME TypeInv, [Next]_vars PROVE TypeInv'
    OBVIOUS
  <1>1. CASE UNCHANGED vars
    BY <1>1 DEF TypeInv, StoreOK, LocalsOK, CountersOK, HistoryOK, HasRead, vars, store, locals,
                history
  <1> QED
    BY <1>1, TickType, CallType, StepType DEF Next

\* Initially there is no code.
LEMMA TypeInit == Init => TypeInv
  <1> SUFFICES ASSUME Init PROVE TypeInv
    OBVIOUS
  <1>1. StoreOK /\ LocalsOK /\ HasRead
    BY CodeType DEF Init, StoreOK, LocalsOK, HasRead, NoCode, Label, Operation
  <1>2. CountersOK /\ HistoryOK
    BY CodeType DEF Init, CountersOK, HistoryOK, None
  <1> QED
    BY <1>1, <1>2 DEF TypeInv

\* TypeInv always holds.
LEMMA TypeInvariant == Spec => []TypeInv
  BY TypeInit, TypeStep, PTL DEF Spec

\* Every reachable state is well typed; in particular the key never holds a code whose time
\* is up, although every writer sets its own TTL.
THEOREM TypeCorrect == Spec => []TypeOK
  <1>1. TypeInv => TypeOK
    BY TypeParts DEF TypeInv
  <1> QED
    BY <1>1, TypeInvariant, PTL

----------------------------------------------------------------------------
(* Copies of codes *)

\* Nobody knows of a code that has not been generated.
Known ==
    /\ code.id <= generated
    /\ \A p \in Process : pc[p] = "set" => mem[p].id <= generated
    /\ \A c \in used : c <= generated

\* Everybody who is about to write a code back has it with the end it was generated with.
SameEnd ==
    /\ \A p \in Process : pc[p] = "set" /\ mem[p].id = code.id => mem[p].expireAt = code.expireAt
    /\ \A p, q \in Process :
           pc[p] = "set" /\ pc[q] = "set" /\ mem[p].id = mem[q].id
               => mem[p].expireAt = mem[q].expireAt

\* A code that has verified is not in the key unconsumed, unless an overlapping write has put
\* it there; and a verification writes only what it has read unconsumed.
UsedIsConsumed ==
    /\ \A c \in used : code.id = c => code.consumed \/ c \in overlapped
    /\ \A p \in Process : pc[p] = "set" /\ op[p] \in Verifying => ~mem[p].consumed

CopyInv ==
    /\ Known /\ SameEnd /\ UsedIsConsumed
    /\ UsedTwiceOnlyByOverlap /\ OlderCodeOnlyByOverlap

\* Steps that leave codes, their copies and the history alone, or delete the code
LEMMA CopyUnchanged ==
    ASSUME CopyInv, TypeInv,
           code' = code \/ code' = NoCode, UNCHANGED <<generated, used, reused, overlapped>>,
           \A p \in Process : pc'[p] = "set" => pc[p] = "set" /\ mem'[p] = mem[p] /\ op'[p] = op[p]
    PROVE  CopyInv'
  <1>1. generated \in Nat
    BY CountersType DEF TypeInv
  <1>2. NoCode.id = None /\ None \notin used /\ None <= generated /\ None \notin Code
    BY <1>1, CodeType DEF NoCode, None, TypeInv, HistoryOK
  <1>3. \A p \in Process : pc[p] = "set" => mem[p].id \in Code
    BY DEF TypeInv, HasRead
  <1>4. Known'
    BY <1>2 DEF CopyInv, Known
  <1>5. SameEnd'
    BY <1>2, <1>3 DEF CopyInv, SameEnd
  <1>6. UsedIsConsumed'
    BY <1>2 DEF CopyInv, UsedIsConsumed
  <1>7. UsedTwiceOnlyByOverlap' /\ OlderCodeOnlyByOverlap'
    BY <1>2 DEF CopyInv, UsedTwiceOnlyByOverlap, OlderCodeOnlyByOverlap
  <1> QED
    BY <1>4, <1>5, <1>6, <1>7 DEF CopyInv

\* A new code is known to nobody.
LEMMA GenerateCopies ==
    ASSUME CopyInv, TypeInv, NEW p \in Process, GenerateSet(p)
    PROVE  CopyInv'
  <1>1. generated \in Nat /\ generated' = generated + 1 /\ generated' # None
    BY CountersType DEF TypeInv, GenerateSet, None
  <1>2. code'.id = generated' /\ UNCHANGED <<used, reused, overlapped, mem>>
    BY DEF GenerateSet, NoCode
  <1>3. \A q \in Process : pc'[q] = "set" => pc[q] = "set" /\ op'[q] = op[q] /\ mem'[q] = mem[q]
    BY DEF GenerateSet, Goto, TypeInv, LocalsOK
  <1>4. \A q \in Process : pc[q] = "set" => mem[q].id \in Nat /\ mem[q].id <= generated
    BY CodeType DEF CopyInv, Known, TypeInv, HasRead
  <1>5. \A c \in used : c \in Nat /\ c <= generated
    BY CodeType DEF CopyInv, Known, TypeInv, HistoryOK
  <1>6. Known'
    BY <1>1, <1>2, <1>3, <1>4, <1>5 DEF Known
  <1>7. SameEnd'
    <2>1. \A q \in Process : pc[q] = "set" => mem[q].id # generated'
      BY <1>1, <1>4
    <2> QED
      BY <1>2, <1>3, <2>1 DEF CopyInv, SameEnd
  <1>8. UsedIsConsumed'
    <2>1. generated' \notin used
      BY <1>1, <1>5
    <2> QED
      BY <1>2, <1>3, <2>1 DEF CopyInv, UsedIsConsumed
  <1>9. UsedTwiceOnlyByOverlap' /\ OlderCodeOnlyByOverlap'
    BY <1>2 DEF CopyInv, UsedTwiceOnlyByOverlap, OlderCodeOnlyByOverlap
  <1> QED
    BY <1>6, <1>7, <1>8, <1>9 DEF CopyInv

\* A copy is made.
LEMMA GetCopies ==
    ASSUME CopyInv, TypeInv, NEW p \in Process, GetCode(p)
    PROVE  CopyInv'
  <1>1. UNCHANGED <<code, generated, used, reused, overlapped>>
    BY DEF GetCode, store
  <1>2. pc \in [Process -> Label] /\ op \in [Process -> Operation] /\ mem \in [Process -> CodeData]
    BY DEF TypeInv, LocalsOK
  <1>3. CASE Return(p) \/ Goto(p, "get", "incr")
    <2>1. \A q \in Process :
              pc'[q] = "set" => pc[q] = "set" /\ mem'[q] = mem[q] /\ op'[q] = op[q]
      BY <1>2, <1>3 DEF GetCode, Return, Goto, Keep
    <2> QED
      BY <1>1, <2>1, CopyUnchanged
  <1>4. CASE /\ ~NothingToDo(p) /\ Goto(p, "get", "set")
             /\ Keep(p, IF op[p] \in Verifying THEN "verify" ELSE op[p], code)
    <2>1. /\ mem'[p] = code /\ pc[p] = "get"
          /\ op'[p] \in Verifying => ~code.consumed
      BY <1>2, <1>4 DEF Keep, Goto, NothingToDo
    <2>2. \A q \in Process \ {p} : pc'[q] = pc[q] /\ mem'[q] = mem[q] /\ op'[q] = op[q]
      BY <1>2, <1>4 DEF Keep, Goto
    <2>3. Known'
      BY <1>1, <2>1, <2>2 DEF CopyInv, Known
    <2>4. SameEnd'
      BY <1>1, <2>1, <2>2 DEF CopyInv, SameEnd
    <2>5. UsedIsConsumed'
      BY <1>1, <2>1, <2>2 DEF CopyInv, UsedIsConsumed
    <2>6. UsedTwiceOnlyByOverlap' /\ OlderCodeOnlyByOverlap'
      BY <1>1 DEF CopyInv, UsedTwiceOnlyByOverlap, OlderCodeOnlyByOverlap
    <2> QED
      BY <2>3, <2>4, <2>5, <2>6 DEF CopyInv
  <1> QED
    BY <1>3, <1>4 DEF GetCode

\* A copy is written back.
LEMMA UpdateCopies ==
    ASSUME CopyInv, TypeInv, NEW p \in Process, UpdateCode(p)
    PROVE  CopyInv'
  <1>1. pc \in [Process -> Label] /\ op \in [Process -> Operation] /\ mem \in [Process -> CodeData]
    BY DEF TypeInv, LocalsOK
  <1>2. pc[p] = "set" /\ generated' = generated
    BY DEF UpdateCode
  <1>3. \A q \in Process :
            pc'[q] = "set" => pc[q] = "set" /\ mem'[q] = mem[q] /\ op'[q] = op[q]
    BY <1>1 DEF UpdateCode, Return, Goto, Keep
  <1>4. CASE ~(now < mem[p].expireAt)
    <2>1. UNCHANGED <<code, used, reused, overlapped>>
      BY <1>4 DEF UpdateCode
    <2> QED
      BY <1>2, <1>3, <2>1, CopyUnchanged
  <1>5. CASE now < mem[p].expireAt
    <2>1. code' \in Changed(p) /\ Recorded(p)
      BY <1>5 DEF UpdateCode
    <2>2. /\ code'.id = mem[p].id /\ code'.expireAt = mem[p].expireAt
          /\ mem[p].consumed => code'.consumed
          /\ op[p] \in Verifying => code'.consumed
      BY <2>1, ChangedType DEF TypeInv
    <2>3. /\ used' = used \cup (IF op[p] \in Verifying THEN {mem[p].id} ELSE {})
          /\ overlapped' = overlapped \cup (IF code = mem[p] THEN {} ELSE {mem[p].id})
          /\ reused' = reused \cup ((IF op[p] \in Verifying THEN {mem[p].id} ELSE {}) \cap used)
      BY <2>1 DEF Recorded
    <2>4. Known'
      BY <1>2, <1>3, <2>2, <2>3 DEF CopyInv, Known
    <2>5. SameEnd'
      BY <1>2, <1>3, <2>2 DEF CopyInv, SameEnd
    <2>6. UsedIsConsumed'
      BY <1>2, <1>3, <2>2, <2>3 DEF CopyInv, UsedIsConsumed
    <2>7. UsedTwiceOnlyByOverlap'
      <3>1. ASSUME op[p] \in Verifying, mem[p].id \in used
            PROVE  mem[p].id \in overlapped'
        BY <1>2, <2>3, <3>1 DEF CopyInv, UsedIsConsumed
      <3> QED
        BY <2>3, <3>1 DEF CopyInv, UsedTwiceOnlyByOverlap
    <2>8. OlderCodeOnlyByOverlap'
      BY <1>2, <2>2, <2>3 DEF CopyInv, OlderCodeOnlyByOverlap
    <2> QED
      BY <2>4, <2>5, <2>6, <2>7, <2>8 DEF CopyInv
  <1> QED
    BY <1>4, <1>5

\* CopyInv is inductive.
LEMMA CopyStep ==
    ASSUME CopyInv, TypeInv, [Next]_vars
    PROVE  CopyInv'
  <1>1. pc \in [Process -> Label] /\ op \in [Process -> Operation] /\ mem \in [Process -> CodeData]
    BY DEF TypeInv, LocalsOK
  <1> DEFINE Quiet ==
                 /\ code' = code \/ code' = NoCode
                 /\ UNCHANGED <<generated, used, reused, overlapped>>
                 /\ \A p \in Process :
                        pc'[p] = "set" => pc[p] = "set" /\ mem'[p] = mem[p] /\ op'[p] = op[p]
  <1>2. ASSUME Quiet PROVE CopyInv'
    BY <1>2, CopyUnchanged
  <1>3. CASE Tick
    <2>1. Quiet
      BY <1>3 DEF Tick, locals, history
    <2> QED
      BY <1>2, <2>1
  <1>4. CASE UNCHANGED vars
    <2>1. Quiet
      BY <1>4 DEF vars, store, locals, history
    <2> QED
      BY <1>2, <2>1
  <1>5. ASSUME NEW p \in Process, Call(p) PROVE CopyInv'
    <2>1. CASE GenerateSet(p)
      BY <2>1, GenerateCopies
    <2>2. CASE ~GenerateSet(p)
      <3>1. \E o, first : first # "set" /\ Begin(p, o, first)
        BY <1>5, <2>2
           DEF Call, BeginVerify, BeginVerifySubmitted, BeginConsume, BeginSubmit, BeginDelivered
      <3>2. Quiet
        BY <1>1, <3>1 DEF Begin, Goto, store, history
      <3> QED
        BY <1>2, <3>2
    <2> QED
      BY <2>1, <2>2
  <1>6. ASSUME NEW p \in Process, Step(p) PROVE CopyInv'
    <2>1. CASE GetCode(p) \/ UpdateCode(p)
      BY <2>1, GetCopies, UpdateCopies
    <2>2. CASE ResetFailedAttempts(p) \/ ResetFails(p)
      <3>1. Quiet
        BY <1>1, <2>2 DEF ResetFailedAttempts, ResetFails, Goto, store, locals, history
      <3> QED
        BY <1>2, <3>1
    <2>3. CASE CheckFailedAttempts(p) \/ Revoke(p)
      <3>1. UNCHANGED <<generated, used, reused, overlapped>> /\ (code' = code \/ code' = NoCode)
        BY <2>3 DEF CheckFailedAttempts, Revoke, store, history
      <3>2. \A q \in Process :
                pc'[q] = "set" => pc[q] = "set" /\ mem'[q] = mem[q] /\ op'[q] = op[q]
        BY <1>1, <2>3 DEF CheckFailedAttempts, Revoke, Return, Goto, Keep, locals
      <3> QED
        BY <1>2, <3>1, <3>2
    <2>4. CASE IncrementFailedAttempts(p) \/ ExpireFailedAttempts(p) \/ Crash(p)
      <3>1. UNCHANGED <<code, generated, used, reused, overlapped>>
        BY <2>4 DEF IncrementFailedAttempts, ExpireFailedAttempts, Crash, store, history
      <3>2. \A q \in Process :
                pc'[q] = "set" => pc[q] = "set" /\ mem'[q] = mem[q] /\ op'[q] = op[q]
        BY <1>1, <2>4 DEF IncrementFailedAttempts, ExpireFailedAttempts, Crash, Return, Goto, Keep
      <3> QED
        BY <1>2, <3>1, <3>2
    <2> QED
      BY <1>6, <2>1, <2>2, <2>3, <2>4 DEF Step
  <1> QED
    BY <1>3, <1>4, <1>5, <1>6 DEF Next

\* Initially there is no copy.
LEMMA CopyInit == Init => CopyInv
  <1> SUFFICES ASSUME Init PROVE CopyInv
    OBVIOUS
  <1>1. code = NoCode /\ generated = 0 /\ used = {} /\ reused = {} /\ NoCode.id = None /\ None = 0
    BY DEF Init, NoCode, None
  <1>2. \A p \in Process : pc[p] = "idle"
    BY DEF Init
  <1> QED
    BY <1>1, <1>2 DEF CopyInv, Known, SameEnd, UsedIsConsumed, UsedTwiceOnlyByOverlap,
                      OlderCodeOnlyByOverlap

\* CopyInv always holds.
LEMMA CopyInvariant == Spec => []CopyInv
  BY CopyInit, CopyStep, TypeInvariant, PTL DEF Spec

\* VerifyOTP (otp/service.go:279): a code verifies twice only if somebody has written the key
\* between a read and the write that follows it.
THEOREM SingleUseCorrect == Spec => []UsedTwiceOnlyByOverlap
  <1>1. CopyInv => UsedTwiceOnlyByOverlap
    BY DEF CopyInv
  <1> QED
    BY <1>1, CopyInvariant, PTL

\* CodeStoreRedis.Update (code_store_redis.go:71): only such a write brings an older code back.
THEOREM LatestCodeCorrect == Spec => []OlderCodeOnlyByOverlap
  <1>1. CopyInv => OlderCodeOnlyByOverlap
    BY DEF CopyInv
  <1> QED
    BY <1>1, CopyInvariant, PTL

\* No write makes a code live longer than from its generation, whatever is written back late.
THEOREM ExpiryCorrect == Spec => ExpiryIsNeverRenewed
  <1>1. ASSUME CopyInv, TypeInv, [Next]_vars, code.id # None, code'.id = code.id
        PROVE  code'.expireAt = code.expireAt
    <2>1. \A p \in Process : UpdateCode(p) => code'.expireAt = code.expireAt
      <3> SUFFICES ASSUME NEW p \in Process, UpdateCode(p) PROVE code'.expireAt = code.expireAt
        OBVIOUS
      <3>1. code' = code \/ code' \in Changed(p)
        BY DEF UpdateCode
      <3>2. pc[p] = "set"
        BY DEF UpdateCode
      <3>3. code' \in Changed(p) => code'.id = mem[p].id /\ code'.expireAt = mem[p].expireAt
        BY <1>1, ChangedType DEF TypeInv
      <3> QED
        BY <1>1, <3>1, <3>2, <3>3 DEF CopyInv, SameEnd
    <2>2. \A p \in Process : ~GenerateSet(p)
      <3>1. generated \in Nat /\ code.id \in Nat /\ code.id <= generated
        BY <1>1, CountersType, CodeType DEF TypeInv, StoreOK, CodeData, CopyInv, Known, None
      <3>2. \A p \in Process : GenerateSet(p) => code'.id = generated + 1
        BY DEF GenerateSet, NoCode
      <3> QED
        BY <1>1, <3>1, <3>2
    <2>3. NoCode.id = None
      BY DEF NoCode
    <2>4. CASE Tick
      BY <1>1, <2>3, <2>4 DEF Tick
    <2>5. CASE UNCHANGED vars
      BY <2>5 DEF vars, store
    <2>6. ASSUME NEW p \in Process, Call(p) PROVE code' = code
      BY <2>2, <2>6 DEF Call, BeginVerify, BeginVerifySubmitted, BeginConsume, BeginSubmit,
                        BeginDelivered, Begin, store
    <2>7. ASSUME NEW p \in Process, Step(p), ~UpdateCode(p) PROVE code' = code \/ code' = NoCode
      BY <2>7 DEF Step, ResetFailedAttempts, ResetFails, CheckFailedAttempts, Revoke,
                  IncrementFailedAttempts, ExpireFailedAttempts, GetCode, Crash, store
    <2> QED
      BY <1>1, <2>1, <2>3, <2>4, <2>5, <2>6, <2>7 DEF Next
  <1>2. CopyInv /\ TypeInv /\ [Next]_vars
            => [(code.id # None /\ code'.id = code.id) => code'.expireAt = code.expireAt]_vars
    BY <1>1
  <1> QED
    BY <1>2, CopyInvariant, TypeInvariant, PTL DEF Spec, ExpiryIsNeverRenewed

----------------------------------------------------------------------------
(* Counting wrong guesses *)

\* The processes that will count a wrong guess or may still make one without another check
Guessing  == {p \in Process : pc[p] = "incr" \/ (pc[p] = "get" /\ op[p] \in Verifying)}
Waiting(c) == {p \in Process : pc[p] = "incr" /\ mem[p].id = c}
Expiring  == {p \in Process : pc[p] = "expire"}
Resetting == {p \in Process : pc[p] = "reset"}

One(b) == IF b THEN 1 ELSE 0

NoReset == One(Resetting = {})

\* Once the counter is full, only those get to guess who passed the check before.
CheckedFirst ==
    attempts >= MaxFailedAttempts
        => attempts + Cardinality(Guessing) <= MaxFailedAttempts + Others

\* A counter that ends has counted something.
EndsCounted == attempts = 0 => countEnds = 0

\* GenerateOTP goes on to the delivery of its message.
ResetThenSend == \A p \in Process : pc[p] = "reset" => op[p] = "sent"

\* Nobody has guessed a code before it is generated.
NotYetGuessed ==
    /\ \A c \in Code : c > generated => wrong[c] = 0
    /\ \A p \in Process : pc[p] = "incr" => mem[p].id <= generated

\* What accounts for the wrong guesses of c: the counter, comparisons it has still to count,
\* increments that have not extended its life yet, and steps that failed
Counting(c) == attempts + Pending(c) + failures
Loose(c)    == Pending(c) + Cardinality(Expiring) + failures

\* The wrong guesses of a code c that ends at e.  If the counter has an end and this end comes
\* before the code's, nobody has extended it since c was generated; then c was generated by a
\* process that has not reset the counter yet, or it failed to.
CountedUntil(c, e) ==
    IF countEnds = 0 \/ countEnds >= e
    THEN wrong[c] <= Counting(c) + Others
    ELSE wrong[c] + NoReset <= Loose(c)

Copies  == {code} \cup {mem[p] : p \in {q \in Process : pc[q] = "set"}}
Live(m) == m.id # None /\ now < m.expireAt

CopiesCounted ==
    \A m \in Copies :
        Live(m) => m.expireAt <= now + ValidPeriod /\ CountedUntil(m.id, m.expireAt)

GuessInv ==
    /\ CheckedFirst /\ EndsCounted /\ ResetThenSend /\ NotYetGuessed /\ CopiesCounted
    /\ WrongGuessesAreBounded

\* Every step of a process leaves what the others keep alone.
OnlyAt(p) ==
    \A q \in Process \ {p} : pc'[q] = pc[q] /\ op'[q] = op[q] /\ mem'[q] = mem[q]

LEMMA StepIsLocal ==
    ASSUME LocalsOK, NEW p \in Process, Call(p) \/ Step(p)
    PROVE  OnlyAt(p)
  <1>1. pc \in [Process -> Label] /\ op \in [Process -> Operation] /\ mem \in [Process -> CodeData]
    BY DEF LocalsOK
  <1>2. CASE Call(p)
    BY <1>1, <1>2 DEF OnlyAt, Call, GenerateSet, BeginVerify, BeginVerifySubmitted, BeginConsume,
                      BeginSubmit, BeginDelivered, Begin, Goto
  <1>3. CASE ResetFailedAttempts(p) \/ ResetFails(p) \/ CheckFailedAttempts(p) \/ Revoke(p)
    BY <1>1, <1>3 DEF OnlyAt, ResetFailedAttempts, ResetFails, CheckFailedAttempts, Revoke,
                      Return, Goto, Keep, locals
  <1>4. CASE IncrementFailedAttempts(p) \/ ExpireFailedAttempts(p) \/ Crash(p)
    BY <1>1, <1>4 DEF OnlyAt, IncrementFailedAttempts, ExpireFailedAttempts, Crash, Return, Goto,
                      Keep
  <1>5. CASE GetCode(p)
    BY <1>1, <1>5 DEF OnlyAt, GetCode, Return, Goto, Keep
  <1>6. CASE UpdateCode(p)
    BY <1>1, <1>6 DEF OnlyAt, UpdateCode, Return, Goto, Keep
  <1> QED
    BY <1>2, <1>3, <1>4, <1>5, <1>6 DEF Step

\* A set of processes without one of them
LEMMA WithoutOne ==
    ASSUME NEW S \in SUBSET Process, NEW p \in Process
    PROVE  /\ Cardinality(S) \in Nat
           /\ Cardinality(S \ {p}) = Cardinality(S) - One(p \in S)
  <1>1. IsFiniteSet(S) /\ Cardinality(S) \in Nat
    BY FS_Subset, FS_CardinalityType
  <1>2. CASE p \in S
    BY <1>1, <1>2, FS_RemoveElement DEF One
  <1>3. CASE p \notin S
    <2>1. S \ {p} = S
      BY <1>3
    <2> QED
      BY <1>1, <1>3, <2>1 DEF One
  <1> QED
    BY <1>2, <1>3, <1>1

\* A set of processes that changes at one of them
LEMMA ChangedAtOne ==
    ASSUME NEW S \in SUBSET Process, NEW T \in SUBSET Process, NEW p \in Process,
           S \ {p} = T \ {p}
    PROVE  /\ Cardinality(S) \in Nat /\ Cardinality(T) \in Nat
           /\ Cardinality(T) - One(p \in T) = Cardinality(S) - One(p \in S)
  BY WithoutOne

\* How many processes there are
LEMMA HowMany ==
    /\ Others \in Nat /\ Cardinality(Process) = Others + 1
    /\ \A S \in SUBSET Process :
           /\ Cardinality(S) \in Nat /\ Cardinality(S) <= Others + 1
           /\ \A p \in Process : p \notin S => Cardinality(S) <= Others
  <1>1. Cardinality(Process) \in Nat /\ Cardinality(Process) # 0
    BY FS_CardinalityType, FS_EmptySet
  <1>2. ASSUME NEW S \in SUBSET Process
        PROVE  Cardinality(S) \in Nat /\ Cardinality(S) <= Cardinality(Process)
    BY FS_Subset, FS_CardinalityType
  <1>3. ASSUME NEW S \in SUBSET Process, NEW p \in Process, p \notin S
        PROVE  Cardinality(S) <= Cardinality(Process) - 1
    <2>1. IsFiniteSet(Process \ {p}) /\ Cardinality(Process \ {p}) = Cardinality(Process) - 1
      BY FS_RemoveElement
    <2>2. S \subseteq Process \ {p}
      BY <1>3
    <2> QED
      BY <2>1, <2>2, FS_Subset
  <1> QED
    BY <1>1, <1>2, <1>3 DEF Others

\* How a step of p changes the sets that are counted
LEMMA CountsMove ==
    ASSUME LocalsOK, NEW p \in Process, OnlyAt(p), NEW c \in Code
    PROVE  /\ Pending(c)' - One(pc'[p] = "incr" /\ mem'[p].id = c)
                  = Pending(c) - One(pc[p] = "incr" /\ mem[p].id = c)
           /\ Cardinality(Expiring') - One(pc'[p] = "expire")
                  = Cardinality(Expiring) - One(pc[p] = "expire")
           /\ Cardinality(Guessing') - One(p \in Guessing')
                  = Cardinality(Guessing) - One(p \in Guessing)
           /\ pc'[p] = "reset" => NoReset' = 0
           /\ pc[p] # "reset" /\ pc'[p] # "reset" => NoReset' = NoReset
  <1>1. /\ Waiting(c)' \ {p} = Waiting(c) \ {p}
        /\ Expiring' \ {p} = Expiring \ {p}
        /\ Guessing' \ {p} = Guessing \ {p}
        /\ Resetting' \ {p} = Resetting \ {p}
    BY DEF OnlyAt, Waiting, Expiring, Guessing, Resetting
  <1>2. /\ Waiting(c)' \in SUBSET Process /\ Waiting(c) \in SUBSET Process
        /\ Expiring' \in SUBSET Process /\ Expiring \in SUBSET Process
        /\ Guessing' \in SUBSET Process /\ Guessing \in SUBSET Process
    BY DEF Waiting, Expiring, Guessing
  <1>3. Pending(c)' = Cardinality(Waiting(c)') /\ Pending(c) = Cardinality(Waiting(c))
    BY DEF Pending, Waiting
  <1>4. /\ (p \in Waiting(c)') = (pc'[p] = "incr" /\ mem'[p].id = c)
        /\ (p \in Waiting(c)) = (pc[p] = "incr" /\ mem[p].id = c)
        /\ (p \in Expiring') = (pc'[p] = "expire") /\ (p \in Expiring) = (pc[p] = "expire")
        /\ (p \in Resetting') = (pc'[p] = "reset") /\ (p \in Resetting) = (pc[p] = "reset")
    BY DEF Waiting, Expiring, Resetting
  <1>5. Cardinality(Waiting(c)') - One(p \in Waiting(c)')
            = Cardinality(Waiting(c)) - One(p \in Waiting(c))
    BY <1>1, <1>2, ChangedAtOne
  <1>6. Cardinality(Expiring') - One(p \in Expiring') = Cardinality(Expiring) - One(p \in Expiring)
    BY <1>1, <1>2, ChangedAtOne
  <1>7. Cardinality(Guessing') - One(p \in Guessing') = Cardinality(Guessing) - One(p \in Guessing)
    BY <1>1, <1>2, ChangedAtOne
  <1>8. pc'[p] = "reset" => NoReset' = 0
    BY <1>4 DEF NoReset, One
  <1>9. pc[p] # "reset" /\ pc'[p] # "reset" => NoReset' = NoReset
    <2>1. pc[p] # "reset" /\ pc'[p] # "reset" => Resetting' = Resetting
      BY <1>1, <1>4
    <2> QED
      BY <2>1 DEF NoReset
  <1> QED
    BY <1>3, <1>4, <1>5, <1>6, <1>7, <1>8, <1>9

\* The counts are numbers.
CountsAreNumbers ==
    /\ attempts \in Nat /\ countEnds \in Nat /\ failures \in Nat /\ now \in Nat
    /\ wrong \in [Code -> Nat]
    /\ \A c \in Code : Pending(c) \in Nat /\ Counting(c) \in Nat /\ Loose(c) \in Nat
    /\ Cardinality(Expiring) \in Nat /\ Cardinality(Guessing) \in Nat
    /\ NoReset \in {0, 1}

LEMMA CountsType == TypeInv => CountsAreNumbers
  <1> SUFFICES ASSUME TypeInv PROVE CountsAreNumbers
    OBVIOUS
  <1>1. /\ attempts \in Nat /\ countEnds \in Nat /\ failures \in Nat /\ now \in Nat
        /\ wrong \in [Code -> Nat]
    BY DEF TypeInv, StoreOK, HistoryOK
  <1>2. Cardinality(Expiring) \in Nat /\ Cardinality(Guessing) \in Nat
    BY HowMany DEF Expiring, Guessing
  <1>3. \A c \in Code : Pending(c) \in Nat
    BY PendingType
  <1>4. NoReset \in {0, 1}
    BY DEF NoReset, One
  <1> QED
    BY <1>1, <1>2, <1>3, <1>4 DEF CountsAreNumbers, Counting, Loose

\* What a step of p does to the numbers of a code, if it leaves the end of the counter alone
Steady(c) ==
    /\ countEnds' = countEnds
    /\ wrong'[c] + Counting(c) <= wrong[c] + Counting(c)'
    /\ wrong'[c] + NoReset' + Loose(c) <= wrong[c] + NoReset + Loose(c)'

\* Such a step keeps the wrong guesses of the code accounted for.
LEMMA SteadyStep ==
    ASSUME CountsAreNumbers, CountsAreNumbers', NEW c \in Code, NEW e \in Nat,
           Steady(c), CountedUntil(c, e)
    PROVE  CountedUntil(c, e)'
  <1> DEFINE w == wrong[c]
             w2 == wrong'[c]
             a == Counting(c)
             a2 == Counting(c)'
             x == Loose(c)
             x2 == Loose(c)'
             n == NoReset
             n2 == NoReset'
  <1>1. /\ w \in Nat /\ w2 \in Nat /\ a \in Nat /\ a2 \in Nat /\ x \in Nat /\ x2 \in Nat
        /\ n \in Nat /\ n2 \in Nat
    BY DEF CountsAreNumbers
  <1>2. Others \in Nat
    BY HowMany
  <1>3. w2 + a <= w + a2 /\ w2 + n2 + x <= w + n + x2 /\ countEnds' = countEnds
    BY DEF Steady
  <1>4. (w <= a + Others => w2 <= a2 + Others) /\ (w + n <= x => w2 + n2 <= x2)
    <2> HIDE DEF w, w2, a, a2, x, x2, n, n2
    <2> QED
      BY <1>1, <1>2, <1>3
  <1>5. CountedUntil(c, e)' = (IF countEnds' = 0 \/ countEnds' >= e
                               THEN w2 <= a2 + Others ELSE w2 + n2 <= x2)
    BY DEF CountedUntil, Others
  <1>6. IF countEnds = 0 \/ countEnds >= e THEN w <= a + Others ELSE w + n <= x
    BY DEF CountedUntil
  <1> HIDE DEF w, w2, a, a2, x, x2, n, n2
  <1> QED
    BY <1>3, <1>4, <1>5, <1>6

\* Steps that count nothing and do not fail
LEMMA QuietIsSteady ==
    ASSUME CountsAreNumbers, CountsAreNumbers', LocalsOK, NEW p \in Process, OnlyAt(p),
           NEW c \in Code, wrong' = wrong, UNCHANGED <<attempts, countEnds, failures>>,
           {pc[p], pc'[p]} \cap {"incr", "expire"} = {}, pc[p] # "reset"
    PROVE  Steady(c)
  <1>1. /\ One(pc'[p] = "incr" /\ mem'[p].id = c) = 0 /\ One(pc[p] = "incr" /\ mem[p].id = c) = 0
        /\ One(pc'[p] = "expire") = 0 /\ One(pc[p] = "expire") = 0
    BY DEF One
  <1>2. /\ Pending(c)' = Pending(c) /\ Cardinality(Expiring') = Cardinality(Expiring)
        /\ NoReset' <= NoReset
    BY <1>1, CountsMove DEF CountsAreNumbers
  <1>3. Counting(c)' = Counting(c) /\ Loose(c)' = Loose(c)
    BY <1>2 DEF Counting, Loose
  <1>4. wrong[c] \in Nat /\ NoReset \in Nat /\ NoReset' \in Nat
        /\ Counting(c) \in Nat /\ Loose(c) \in Nat
    BY DEF CountsAreNumbers
  <1> QED
    BY <1>2, <1>3, <1>4 DEF Steady

\* GetCode: a wrong guess is one more comparison to count.
LEMMA GetCodeIsSteady ==
    ASSUME TypeInv, CountsAreNumbers, CountsAreNumbers', NEW p \in Process, GetCode(p),
           NEW c \in Code
    PROVE  Steady(c)
  <1>1. OnlyAt(p) /\ LocalsOK
    BY StepIsLocal DEF TypeInv, Step
  <1>2. UNCHANGED <<attempts, countEnds, failures>> /\ pc[p] = "get"
    BY DEF GetCode, store
  <1>3. pc \in [Process -> Label] /\ mem \in [Process -> CodeData]
    BY <1>1 DEF LocalsOK
  <1>4. CASE UNCHANGED wrong /\ (Return(p) \/ Goto(p, "get", "set"))
    <2>1. pc'[p] \in {"idle", "set"}
      BY <1>3, <1>4 DEF Return, Goto
    <2> QED
      BY <1>1, <1>2, <1>4, <2>1, QuietIsSteady
  <1>5. CASE /\ Goto(p, "get", "incr") /\ ~NothingToDo(p)
             /\ wrong' = [wrong EXCEPT ![code.id] = @ + 1]
             /\ Keep(p, "verify", [NoCode EXCEPT !.id = code.id])
    <2>1. pc'[p] = "incr" /\ mem'[p].id = code.id
      BY <1>3, <1>5 DEF Goto, Keep, NoCode
    <2>2. /\ One(pc'[p] = "incr" /\ mem'[p].id = c) = One(code.id = c)
          /\ One(pc[p] = "incr" /\ mem[p].id = c) = 0
          /\ One(pc'[p] = "expire") = 0 /\ One(pc[p] = "expire") = 0
      BY <1>2, <2>1 DEF One
    <2>3. /\ Pending(c)' = Pending(c) + One(code.id = c)
          /\ Cardinality(Expiring') = Cardinality(Expiring) /\ NoReset' = NoReset
      <3>1. One(code.id = c) \in Nat
        BY DEF One
      <3> QED
        BY <1>1, <1>2, <2>1, <2>2, <3>1, CountsMove DEF CountsAreNumbers
    <2>4. wrong'[c] = wrong[c] + One(code.id = c)
      BY <1>5 DEF One, CountsAreNumbers
    <2>5. Counting(c)' = Counting(c) + One(code.id = c) /\ Loose(c)' = Loose(c) + One(code.id = c)
      <3>1. One(code.id = c) \in Nat
        BY DEF One
      <3> QED
        BY <1>2, <2>3, <3>1 DEF Counting, Loose, CountsAreNumbers
    <2>6. /\ wrong[c] \in Nat /\ NoReset \in Nat /\ One(code.id = c) \in Nat
          /\ Counting(c) \in Nat /\ Loose(c) \in Nat
      BY DEF CountsAreNumbers, One
    <2> QED
      BY <1>2, <2>3, <2>4, <2>5, <2>6 DEF Steady
  <1> QED
    BY <1>4, <1>5 DEF GetCode

\* The increment: the comparison is counted, and the counter has not been extended yet.
LEMMA IncrementIsSteady ==
    ASSUME TypeInv, CountsAreNumbers, CountsAreNumbers', NEW p \in Process,
           IncrementFailedAttempts(p), NEW c \in Code
    PROVE  Steady(c)
  <1>1. OnlyAt(p) /\ LocalsOK
    BY StepIsLocal DEF TypeInv, Step
  <1>2. /\ UNCHANGED <<wrong, countEnds, failures>> /\ attempts' = attempts + 1
        /\ pc[p] = "incr" /\ pc'[p] = "expire"
    BY <1>1 DEF IncrementFailedAttempts, Goto, LocalsOK
  <1> DEFINE i == One(mem[p].id = c)
  <1>3. /\ One(pc'[p] = "incr" /\ mem'[p].id = c) = 0 /\ One(pc[p] = "incr" /\ mem[p].id = c) = i
        /\ One(pc'[p] = "expire") = 1 /\ One(pc[p] = "expire") = 0 /\ i \in {0, 1}
    BY <1>2 DEF One
  <1>4. /\ Pending(c)' = Pending(c) - i
        /\ Cardinality(Expiring') = Cardinality(Expiring) + 1 /\ NoReset' = NoReset
    <2> HIDE DEF i
    <2> QED
      BY <1>1, <1>2, <1>3, CountsMove DEF CountsAreNumbers
  <1>5. Counting(c)' >= Counting(c) /\ Loose(c)' >= Loose(c)
    <2> HIDE DEF i
    <2> QED
      BY <1>2, <1>3, <1>4 DEF Counting, Loose, CountsAreNumbers
  <1>6. /\ wrong[c] \in Nat /\ NoReset \in Nat
        /\ Counting(c) \in Nat /\ Loose(c) \in Nat /\ Counting(c)' \in Nat /\ Loose(c)' \in Nat
    BY DEF CountsAreNumbers
  <1> QED
    BY <1>2, <1>4, <1>5, <1>6 DEF Steady

\* A failure: at most one comparison or one extension of the counter is lost, or one reset.
LEMMA FailureIsSteady ==
    ASSUME TypeInv, CountsAreNumbers, CountsAreNumbers', NEW p \in Process,
           Crash(p) \/ ResetFails(p), NEW c \in Code
    PROVE  Steady(c)
  <1>1. OnlyAt(p) /\ LocalsOK
    BY StepIsLocal DEF TypeInv, Step
  <1>2. /\ UNCHANGED <<wrong, attempts, countEnds>> /\ failures' = failures + 1
        /\ pc'[p] \in {"idle", "get"}
    BY <1>1 DEF Crash, ResetFails, Goto, Return, LocalsOK, store, history
  <1> DEFINE i == One(pc[p] = "incr" /\ mem[p].id = c)
             j == One(pc[p] = "expire")
             k == One(pc[p] = "reset")
  <1>3. /\ One(pc'[p] = "incr" /\ mem'[p].id = c) = 0 /\ One(pc'[p] = "expire") = 0
        /\ i \in Nat /\ j \in Nat /\ k \in Nat /\ i + j + k <= 1
    BY <1>2 DEF One
  <1>4. Pending(c)' = Pending(c) - i /\ Cardinality(Expiring') = Cardinality(Expiring) - j
    <2>1. /\ Pending(c)' - 0 = Pending(c) - i
          /\ Cardinality(Expiring') - 0 = Cardinality(Expiring) - j
      BY <1>1, <1>3, CountsMove
    <2> HIDE DEF i, j, k
    <2> QED
      BY <1>3, <2>1 DEF CountsAreNumbers
  <1>5. NoReset' <= NoReset + k
    <2>1. CASE pc[p] = "reset"
      BY <2>1 DEF One, CountsAreNumbers
    <2>2. CASE pc[p] # "reset"
      <3>1. NoReset' = NoReset
        BY <1>1, <1>2, <2>2, CountsMove
      <3> QED
        BY <1>3, <3>1 DEF CountsAreNumbers
    <2> QED
      BY <2>1, <2>2
  <1> HIDE DEF i, j, k
  <1>6. Counting(c)' >= Counting(c) /\ Loose(c)' >= Loose(c) + k
    BY <1>2, <1>3, <1>4 DEF Counting, Loose, CountsAreNumbers
  <1>7. /\ wrong[c] \in Nat /\ NoReset \in Nat /\ NoReset' \in Nat
        /\ Counting(c) \in Nat /\ Loose(c) \in Nat /\ Counting(c)' \in Nat /\ Loose(c)' \in Nat
    BY DEF CountsAreNumbers
  <1> QED
    BY <1>2, <1>3, <1>5, <1>6, <1>7 DEF Steady

\* ExpireFailedAttempts: the counter now outlives every code.
LEMMA ExpireStep ==
    ASSUME TypeInv, CountsAreNumbers, CountsAreNumbers', EndsCounted,
           NEW p \in Process, ExpireFailedAttempts(p), NEW c \in Code, NEW e \in Nat,
           e <= now + ValidPeriod, CountedUntil(c, e)
    PROVE  CountedUntil(c, e)'
  <1>1. OnlyAt(p) /\ LocalsOK
    BY StepIsLocal DEF TypeInv, Step
  <1>2. /\ UNCHANGED <<wrong, attempts, failures>> /\ pc[p] = "expire" /\ pc'[p] = "idle"
        /\ countEnds' = IF attempts = 0 THEN 0 ELSE now + ValidPeriod
    BY <1>1 DEF ExpireFailedAttempts, Return, LocalsOK, history
  <1>3. Counting(c)' = Counting(c)
    <2>1. One(pc'[p] = "incr" /\ mem'[p].id = c) = 0 /\ One(pc[p] = "incr" /\ mem[p].id = c) = 0
      BY <1>2 DEF One
    <2>2. Pending(c)' = Pending(c)
      BY <1>1, <2>1, CountsMove DEF CountsAreNumbers
    <2> QED
      BY <1>2, <2>2 DEF Counting
  <1>4. countEnds' = 0 \/ countEnds' >= e
    BY <1>2 DEF CountsAreNumbers
  <1>5. wrong[c] <= Counting(c) + Others
    <2>1. CASE countEnds = 0 \/ countEnds >= e
      BY <2>1 DEF CountedUntil
    <2>2. CASE ~(countEnds = 0 \/ countEnds >= e)
      <3>1. wrong[c] + NoReset <= Loose(c)
        BY <2>2 DEF CountedUntil
      <3>2. attempts >= 1
        BY <2>2 DEF EndsCounted, CountsAreNumbers
      <3>3. Cardinality(Expiring) <= Others + 1 /\ Others \in Nat
        BY HowMany DEF Expiring
      <3> QED
        BY <3>1, <3>2, <3>3 DEF Loose, Counting, CountsAreNumbers
    <2> QED
      BY <2>1, <2>2
  <1> QED
    BY <1>2, <1>3, <1>4, <1>5 DEF CountedUntil, Others

\* ResetFailedAttempts: what counts from here on are the comparisons that wait.
LEMMA ResetStep ==
    ASSUME TypeInv, CountsAreNumbers, NEW p \in Process, ResetFailedAttempts(p),
           NEW c \in Code
    PROVE  wrong'[c] <= Others + 1 /\ \A e : CountedUntil(c, e)'
  <1>1. OnlyAt(p) /\ LocalsOK
    BY StepIsLocal DEF TypeInv, Step
  <1>2. /\ pc[p] = "reset" /\ pc'[p] = "get" /\ failures' = failures
        /\ wrong'[c] = Pending(c) /\ attempts' = 0 /\ countEnds' = 0
    BY <1>1 DEF ResetFailedAttempts, Goto, LocalsOK
  <1>3. Pending(c)' = Pending(c)
    <2>1. One(pc'[p] = "incr" /\ mem'[p].id = c) = 0 /\ One(pc[p] = "incr" /\ mem[p].id = c) = 0
      BY <1>2 DEF One
    <2>2. Pending(c)' - 0 = Pending(c) - 0
      BY <1>1, <2>1, CountsMove
    <2>3. Pending(c)' \in Nat
      <3>1. Pending(c)' = Cardinality(Waiting(c)') /\ Waiting(c)' \in SUBSET Process
        BY DEF Pending, Waiting
      <3> QED
        BY <3>1, HowMany
    <2> QED
      BY <2>2, <2>3 DEF CountsAreNumbers
  <1>4. Others \in Nat /\ Pending(c) <= Others + 1
    <2>1. Pending(c) = Cardinality(Waiting(c)) /\ Waiting(c) \in SUBSET Process
      BY DEF Pending, Waiting
    <2> QED
      BY <2>1, HowMany
  <1>5. wrong'[c] <= Counting(c)' + Others
    BY <1>2, <1>3, <1>4 DEF Counting, CountsAreNumbers
  <1> QED
    BY <1>2, <1>4, <1>5 DEF CountedUntil, Others

\* Time ends the counter: if it ends before the code, its last increment is not extended.
LEMMA TickCounts ==
    ASSUME TypeInv, CountsAreNumbers, CountsAreNumbers', Tick, NEW c \in Code, NEW e \in Nat,
           now' < e, CountedUntil(c, e)
    PROVE  CountedUntil(c, e)'
  <1>1. UNCHANGED <<pc, mem, wrong, failures>> /\ now' = now + 1
    BY DEF Tick, locals, history
  <1>2. Pending(c)' = Pending(c) /\ Expiring' = Expiring /\ Resetting' = Resetting
    BY <1>1 DEF Pending, Expiring, Resetting
  <1>3. CASE countEnds # 0 /\ countEnds <= now'
    <2>1. attempts' = 0 /\ countEnds' = 0
      BY <1>3 DEF Tick
    <2>2. wrong[c] + NoReset <= Loose(c)
      BY <1>1, <1>3 DEF CountedUntil, CountsAreNumbers
    <2>3. Cardinality(Expiring) - NoReset <= Others /\ Others \in Nat
      <3>1. CASE Resetting = {}
        BY <3>1, HowMany DEF Expiring, NoReset, One
      <3>2. CASE Resetting # {}
        <4>1. PICK p \in Process : pc[p] = "reset"
          BY <3>2 DEF Resetting
        <4>2. p \notin Expiring /\ Expiring \in SUBSET Process
          BY <4>1 DEF Expiring
        <4> QED
          BY <3>2, <4>2, HowMany DEF NoReset, One
      <3> QED
        BY <3>1, <3>2
    <2>4. Counting(c)' = Pending(c) + failures
      BY <1>1, <1>2, <2>1 DEF Counting, CountsAreNumbers
    <2>5. wrong'[c] <= Counting(c)' + Others
      BY <1>1, <2>2, <2>3, <2>4 DEF Loose, CountsAreNumbers
    <2> QED
      BY <2>1, <2>5 DEF CountedUntil, Others
  <1>4. CASE ~(countEnds # 0 /\ countEnds <= now')
    <2>1. UNCHANGED <<attempts, countEnds>>
      BY <1>4 DEF Tick
    <2>2. Counting(c)' = Counting(c) /\ Loose(c)' = Loose(c) /\ NoReset' = NoReset
      BY <1>1, <1>2, <2>1 DEF Counting, Loose, NoReset
    <2> QED
      BY <1>1, <2>1, <2>2 DEF CountedUntil, Others
  <1> QED
    BY <1>3, <1>4

\* Every step keeps the wrong guesses of a live code accounted for.
LEMMA CountedStep ==
    ASSUME TypeInv, TypeInv', EndsCounted, [Next]_vars, NEW c \in Code, NEW e \in Nat,
           now' < e, e <= now + ValidPeriod, CountedUntil(c, e)
    PROVE  CountedUntil(c, e)'
  <1>1. CountsAreNumbers
    BY CountsType
  <1>2. CountsAreNumbers'
    <2>1. TypeInv' => CountsAreNumbers'
      BY CountsType, PTL
    <2> QED
      BY <2>1
  <1>3. LocalsOK
    BY DEF TypeInv
  <1>4. CASE Tick
    BY <1>1, <1>2, <1>4, TickCounts
  <1>5. CASE UNCHANGED vars
    <2>1. UNCHANGED <<pc, mem, wrong, failures, attempts, countEnds>>
      BY <1>5 DEF vars, store, locals, history
    <2>2. Counting(c)' = Counting(c) /\ Loose(c)' = Loose(c) /\ NoReset' = NoReset
      BY <2>1 DEF Counting, Loose, NoReset, Pending, Expiring, Resetting
    <2> QED
      BY <2>1, <2>2 DEF CountedUntil, Others
  <1>6. ASSUME NEW p \in Process, Call(p) PROVE CountedUntil(c, e)'
    <2>1. /\ UNCHANGED <<attempts, countEnds, failures, wrong>>
          /\ pc[p] = "idle" /\ pc'[p] \in {"reset", "check", "get"}
      BY <1>3, <1>6 DEF LocalsOK, Call, GenerateSet, BeginVerify, BeginVerifySubmitted,
                        BeginConsume, BeginSubmit, BeginDelivered, Begin, Goto, store, history
    <2>2. Steady(c)
      BY <1>1, <1>2, <1>3, <1>6, <2>1, StepIsLocal, QuietIsSteady
    <2> QED
      BY <1>1, <1>2, <2>2, SteadyStep
  <1>7. ASSUME NEW p \in Process, Step(p) PROVE CountedUntil(c, e)'
    <2>1. CASE CheckFailedAttempts(p) \/ Revoke(p) \/ UpdateCode(p)
      <3>1. /\ UNCHANGED <<attempts, countEnds, failures, wrong>>
            /\ pc[p] \in {"check", "revoke", "set"}
            /\ pc'[p] \in {"idle", "check", "revoke", "get"}
        BY <1>3, <2>1 DEF LocalsOK, CheckFailedAttempts, Revoke, UpdateCode, Goto, Return, store,
                          history
      <3>2. Steady(c)
        BY <1>1, <1>2, <1>3, <1>7, <3>1, StepIsLocal, QuietIsSteady
      <3> QED
        BY <1>1, <1>2, <3>2, SteadyStep
    <2>2. CASE GetCode(p) \/ IncrementFailedAttempts(p) \/ Crash(p) \/ ResetFails(p)
      <3>1. Steady(c)
        BY <1>1, <1>2, <2>2, GetCodeIsSteady, IncrementIsSteady, FailureIsSteady
      <3> QED
        BY <1>1, <1>2, <3>1, SteadyStep
    <2>3. CASE ExpireFailedAttempts(p)
      BY <1>1, <1>2, <2>3, ExpireStep
    <2>4. CASE ResetFailedAttempts(p)
      BY <1>1, <2>4, ResetStep
    <2> QED
      BY <1>7, <2>1, <2>2, <2>3, <2>4 DEF Step
  <1> QED
    BY <1>4, <1>5, <1>6, <1>7 DEF Next

\* When the counter is full, nobody joins those who may guess; and counting a guess takes its
\* process from them.
LEMMA CheckedFirstStep ==
    ASSUME TypeInv, TypeInv', CheckedFirst, ResetThenSend, [Next]_vars
    PROVE  CheckedFirst'
  <1>0. CountsAreNumbers /\ LocalsOK
    BY CountsType DEF TypeInv
  <1>1. attempts' \in Nat /\ attempts \in Nat
    BY DEF TypeInv, StoreOK
  <1>2. /\ Guessing \in SUBSET Process /\ Guessing' \in SUBSET Process
        /\ Cardinality(Guessing) \in Nat /\ Cardinality(Guessing') \in Nat
        /\ Others \in Nat /\ Others' = Others
    BY HowMany DEF Guessing, Others
  <1>3. ASSUME attempts' < MaxFailedAttempts PROVE CheckedFirst'
    BY <1>1, <1>3 DEF CheckedFirst
  <1>4. ASSUME attempts' = attempts, Guessing' \subseteq Guessing PROVE CheckedFirst'
    <2>1. Cardinality(Guessing') <= Cardinality(Guessing)
      BY <1>2, <1>4, FS_Subset
    <2> QED
      BY <1>1, <1>2, <1>4, <2>1 DEF CheckedFirst
  <1>5. CASE Tick
    <2>1. Guessing' = Guessing
      BY <1>5 DEF Tick, Guessing, locals
    <2>2. attempts' = attempts \/ attempts' = 0
      BY <1>5 DEF Tick
    <2> QED
      BY <1>3, <1>4, <2>1, <2>2
  <1>6. CASE UNCHANGED vars
    BY <1>4, <1>6 DEF vars, store, locals, Guessing
  <1>7. ASSUME NEW p \in Process, Call(p) PROVE CheckedFirst'
    <2>1. attempts' = attempts /\ OnlyAt(p)
      BY <1>0, <1>7, StepIsLocal
         DEF Call, GenerateSet, BeginVerify, BeginVerifySubmitted, BeginConsume,
             BeginSubmit, BeginDelivered, Begin, store
    <2>2. p \notin Guessing'
      BY <1>0, <1>7
         DEF LocalsOK, Guessing, Verifying, Call, GenerateSet, BeginVerify, BeginVerifySubmitted,
             BeginConsume, BeginSubmit, BeginDelivered, Begin, Goto
    <2>3. Guessing' \subseteq Guessing
      BY <2>1, <2>2 DEF OnlyAt, Guessing
    <2> QED
      BY <1>4, <2>1, <2>3
  <1>8. ASSUME NEW p \in Process, Step(p) PROVE CheckedFirst'
    <2>0. OnlyAt(p) /\ pc \in [Process -> Label] /\ op \in [Process -> Operation]
      BY <1>0, <1>8, StepIsLocal DEF LocalsOK
    <2>1. CASE ResetFailedAttempts(p)
      BY <1>3, <2>1 DEF ResetFailedAttempts
    <2>2. CASE CheckFailedAttempts(p)
      <3>1. CASE attempts >= MaxFailedAttempts
        <4>1. attempts' = attempts /\ pc'[p] = "revoke"
          BY <1>1, <2>0, <2>2, <3>1 DEF CheckFailedAttempts, Goto, store
        <4>2. Guessing' \subseteq Guessing
          BY <2>0, <4>1 DEF OnlyAt, Guessing
        <4> QED
          BY <1>4, <4>1, <4>2
      <3>2. CASE attempts < MaxFailedAttempts
        BY <1>3, <2>2, <3>2 DEF CheckFailedAttempts, store
      <3> QED
        BY <1>1, <3>1, <3>2
    <2>3. CASE IncrementFailedAttempts(p)
      <3>1. attempts' = attempts + 1 /\ pc[p] = "incr" /\ pc'[p] = "expire"
        BY <2>0, <2>3 DEF IncrementFailedAttempts, Goto
      <3>2. p \in Guessing /\ p \notin Guessing' /\ Guessing' \subseteq Guessing
        BY <2>0, <3>1 DEF OnlyAt, Guessing
      <3>3. Guessing' \subseteq Guessing \ {p} /\ IsFiniteSet(Guessing)
        BY <1>2, <3>2, FS_Subset
      <3>4. Cardinality(Guessing') <= Cardinality(Guessing) - 1
        <4>1. /\ IsFiniteSet(Guessing \ {p})
              /\ Cardinality(Guessing \ {p}) = Cardinality(Guessing) - 1
          BY <3>2, <3>3, FS_RemoveElement
        <4> QED
          BY <3>3, <4>1, FS_Subset
      <3>5. Cardinality(Guessing') <= Others
        BY <1>2, <3>2, HowMany
      <3> QED
        BY <1>1, <1>2, <3>1, <3>4, <3>5 DEF CheckedFirst
    <2>4. CASE /\ ResetFails(p) \/ Revoke(p) \/ ExpireFailedAttempts(p) \/ GetCode(p)
                     \/ UpdateCode(p) \/ Crash(p)
      <3>1. attempts' = attempts
        BY <2>4 DEF ResetFails, Revoke, ExpireFailedAttempts, GetCode, UpdateCode, Crash, store
      <3>2. p \in Guessing' => p \in Guessing
        <4>1. CASE ResetFails(p)
          BY <2>0, <4>1 DEF ResetFails, Goto, locals, Guessing, ResetThenSend, Verifying
        <4>2. CASE Revoke(p) \/ ExpireFailedAttempts(p) \/ Crash(p)
          BY <2>0, <4>2 DEF Revoke, ExpireFailedAttempts, Crash, Return, Guessing
        <4>3. CASE UpdateCode(p)
          BY <2>0, <4>3 DEF UpdateCode, Return, Goto, Guessing
        <4>4. CASE GetCode(p)
          BY <2>0, <4>4 DEF GetCode, Return, Goto, Guessing
        <4> QED
          BY <2>4, <4>1, <4>2, <4>3, <4>4
      <3>3. Guessing' \subseteq Guessing
        BY <2>0, <3>2 DEF OnlyAt, Guessing
      <3> QED
        BY <1>4, <3>1, <3>3
    <2> QED
      BY <1>8, <2>1, <2>2, <2>3, <2>4 DEF Step
  <1> QED
    BY <1>5, <1>6, <1>7, <1>8 DEF Next

\* The counter gets an end when it has counted something, and loses it with what it counted.
LEMMA EndsCountedStep ==
    ASSUME TypeInv, EndsCounted, [Next]_vars
    PROVE  EndsCounted'
  <1>1. attempts \in Nat
    BY DEF TypeInv, StoreOK
  <1>2. CASE Tick \/ UNCHANGED vars
    BY <1>2 DEF EndsCounted, Tick, vars, store
  <1>3. ASSUME NEW p \in Process, Call(p) PROVE EndsCounted'
    BY <1>3 DEF EndsCounted, Call, GenerateSet, BeginVerify, BeginVerifySubmitted, BeginConsume,
                BeginSubmit, BeginDelivered, Begin, store
  <1>4. ASSUME NEW p \in Process, Step(p) PROVE EndsCounted'
    BY <1>1, <1>4 DEF EndsCounted, Step, ResetFailedAttempts, ResetFails, CheckFailedAttempts,
                Revoke, IncrementFailedAttempts, ExpireFailedAttempts, GetCode, UpdateCode, Crash,
                store
  <1> QED
    BY <1>2, <1>3, <1>4 DEF Next

\* Only GenerateOTP resets the counter.
LEMMA ResetThenSendStep ==
    ASSUME TypeInv, ResetThenSend, [Next]_vars
    PROVE  ResetThenSend'
  <1>1. pc \in [Process -> Label] /\ op \in [Process -> Operation] /\ LocalsOK
    BY DEF TypeInv, LocalsOK
  <1>2. CASE Tick \/ UNCHANGED vars
    BY <1>2 DEF ResetThenSend, Tick, vars, locals
  <1>3. ASSUME NEW p \in Process, Call(p) \/ Step(p) PROVE ResetThenSend'
    <2>1. pc'[p] = "reset" => op'[p] = "sent"
      <3>1. CASE Call(p)
        BY <1>1, <3>1 DEF Call, GenerateSet, BeginVerify, BeginVerifySubmitted, BeginConsume,
                          BeginSubmit, BeginDelivered, Begin, Goto
      <3>2. CASE Step(p)
        <4>1. pc'[p] # "reset"
          BY <1>1, <3>2
             DEF Step, ResetFailedAttempts, ResetFails, CheckFailedAttempts, Revoke,
                 IncrementFailedAttempts, ExpireFailedAttempts, GetCode, UpdateCode, Crash,
                 Return, Goto
        <4> QED
          BY <4>1
      <3> QED
        BY <1>3, <3>1, <3>2
    <2>2. OnlyAt(p)
      BY <1>1, <1>3, StepIsLocal
    <2> QED
      BY <2>1, <2>2 DEF OnlyAt, ResetThenSend
  <1> QED
    BY <1>2, <1>3 DEF Next

\* What is compared is the code in the key.
LEMMA NotYetGuessedStep ==
    ASSUME TypeInv, CopyInv, NotYetGuessed, [Next]_vars
    PROVE  NotYetGuessed'
  <1>1. /\ pc \in [Process -> Label] /\ mem \in [Process -> CodeData] /\ LocalsOK
        /\ wrong \in [Code -> Nat] /\ Code \subseteq Nat
        /\ \A p \in Process : pc[p] = "incr" => mem[p].id \in Code
    BY CodeType DEF TypeInv, LocalsOK, HistoryOK, HasRead
  <1>2. generated \in Nat /\ code.id \in Nat /\ code.id <= generated
    <2>1. code.id \in Code \cup {None} /\ None \in Nat
      BY DEF TypeInv, StoreOK, CodeData, None
    <2>2. generated \in Nat
      BY CountersType DEF TypeInv
    <2> QED
      BY <1>1, <2>1, <2>2 DEF CopyInv, Known
  <1>3. CASE Tick \/ UNCHANGED vars
    BY <1>3 DEF NotYetGuessed, Tick, vars, locals, history
  <1>4. ASSUME NEW p \in Process, Call(p) PROVE NotYetGuessed'
    <2>1. generated' \in Nat /\ generated' >= generated /\ wrong' = wrong
      BY <1>2, <1>4
         DEF Call, GenerateSet, BeginVerify, BeginVerifySubmitted, BeginConsume,
             BeginSubmit, BeginDelivered, Begin, history
    <2>2. \A q \in Process : pc'[q] = "incr" => pc[q] = "incr" /\ mem'[q] = mem[q]
      BY <1>1, <1>4
         DEF Call, GenerateSet, BeginVerify, BeginVerifySubmitted, BeginConsume,
             BeginSubmit, BeginDelivered, Begin, Goto
    <2>3. \A q \in Process : pc'[q] = "incr" => mem'[q].id <= generated'
      <3> SUFFICES ASSUME NEW q \in Process, pc'[q] = "incr" PROVE mem'[q].id <= generated'
        OBVIOUS
      <3>1. mem'[q].id \in Nat /\ mem'[q].id <= generated
        BY <1>1, <2>2 DEF NotYetGuessed
      <3> QED
        BY <1>2, <2>1, <3>1
    <2>4. \A c \in Code : c > generated' => wrong'[c] = 0
      BY <1>1, <1>2, <2>1 DEF NotYetGuessed
    <2> QED
      BY <2>3, <2>4 DEF NotYetGuessed
  <1>5. ASSUME NEW p \in Process, Step(p) PROVE NotYetGuessed'
    <2>1. generated' = generated
      BY <1>5 DEF Step, ResetFailedAttempts, ResetFails, CheckFailedAttempts, Revoke,
                  IncrementFailedAttempts, ExpireFailedAttempts, GetCode, UpdateCode, Crash
    <2>2. OnlyAt(p)
      BY <1>1, <1>5, StepIsLocal
    <2>3. pc'[p] = "incr" => mem'[p].id <= generated
      <3>1. CASE GetCode(p)
        <4>1. pc'[p] = "incr" => mem'[p].id = code.id
          BY <1>1, <3>1 DEF GetCode, Return, Goto, Keep, NoCode
        <4> QED
          BY <1>2, <4>1
      <3>2. CASE ~GetCode(p)
        <4>1. pc'[p] # "incr"
          BY <1>1, <1>5, <3>2
             DEF Step, ResetFailedAttempts, ResetFails, CheckFailedAttempts, Revoke,
                 IncrementFailedAttempts, ExpireFailedAttempts, UpdateCode, Crash, Return, Goto
        <4> QED
          BY <4>1
      <3> QED
        BY <3>1, <3>2
    <2>4. \A c \in Code : c > generated => wrong'[c] = 0
      <3>1. CASE GetCode(p)
        <4>1. wrong' = wrong \/ wrong' = [wrong EXCEPT ![code.id] = @ + 1]
          BY <3>1 DEF GetCode
        <4>2. \A c \in Code : c > generated => c # code.id
          BY <1>1, <1>2
        <4> QED
          BY <1>1, <4>1, <4>2 DEF NotYetGuessed
      <3>2. CASE ResetFailedAttempts(p)
        <4> SUFFICES ASSUME NEW c \in Code, c > generated PROVE wrong'[c] = 0
          OBVIOUS
        <4>1. Waiting(c) = {}
          BY <1>1, <1>2 DEF Waiting, NotYetGuessed
        <4>2. Pending(c) = 0
          BY <4>1, FS_EmptySet DEF Pending, Waiting
        <4> QED
          BY <3>2, <4>2 DEF ResetFailedAttempts
      <3>3. CASE ~GetCode(p) /\ ~ResetFailedAttempts(p)
        <4>1. wrong' = wrong
          BY <1>5, <3>3
             DEF Step, ResetFails, CheckFailedAttempts, Revoke, IncrementFailedAttempts,
                 ExpireFailedAttempts, UpdateCode, Crash, history
        <4> QED
          BY <4>1 DEF NotYetGuessed
      <3> QED
        BY <3>1, <3>2, <3>3
    <2> QED
      BY <2>1, <2>2, <2>3, <2>4 DEF NotYetGuessed, OnlyAt
  <1> QED
    BY <1>3, <1>4, <1>5 DEF Next

\* A code that is live after a step was live before, or has just been generated.
LEMMA CopyOrigin ==
    ASSUME TypeInv, [Next]_vars, NEW m \in Copies', m.id # None
    PROVE  \/ \E k \in Copies : k.id = m.id /\ k.expireAt = m.expireAt
           \/ /\ \E p \in Process : GenerateSet(p)
              /\ m.id = generated + 1 /\ m.expireAt = now + ValidPeriod
  <1>1. /\ pc \in [Process -> Label] /\ op \in [Process -> Operation]
        /\ mem \in [Process -> CodeData] /\ LocalsOK
    BY DEF TypeInv, LocalsOK
  <1>2. NoCode.id = None
    BY DEF NoCode
  <1>3. \A p \in Process : pc[p] = "set" => mem[p] \in Copies
    BY DEF Copies
  <1>4. code \in Copies
    BY DEF Copies
  <1>5. m = code' \/ \E q \in Process : pc'[q] = "set" /\ m = mem'[q]
    BY DEF Copies
  <1> HIDE DEF Copies
  <1>6. ASSUME code' = code \/ code' = NoCode,
               \A q \in Process : pc'[q] = "set" => pc[q] = "set" /\ mem'[q] = mem[q]
        PROVE  m \in Copies
    BY <1>2, <1>3, <1>4, <1>5, <1>6
  <1>7. CASE Tick \/ UNCHANGED vars
    <2>1. code' = code \/ code' = NoCode
      BY <1>7 DEF Tick, vars, store
    <2>2. UNCHANGED <<pc, mem>>
      BY <1>7 DEF Tick, vars, locals
    <2> QED
      BY <1>6, <2>1, <2>2
  <1>8. ASSUME NEW p \in Process, Call(p) \/ Step(p),
               ~GenerateSet(p), ~GetCode(p), ~UpdateCode(p)
        PROVE  m \in Copies
    <2>1. code' = code \/ code' = NoCode
      BY <1>8 DEF Call, BeginVerify, BeginVerifySubmitted, BeginConsume, BeginSubmit,
                  BeginDelivered, Begin, Step, ResetFailedAttempts, ResetFails,
                  CheckFailedAttempts, Revoke, IncrementFailedAttempts, ExpireFailedAttempts,
                  Crash, store
    <2>2. pc'[p] # "set"
      BY <1>1, <1>8
         DEF Call, BeginVerify, BeginVerifySubmitted, BeginConsume, BeginSubmit,
             BeginDelivered, Begin, Step, ResetFailedAttempts, ResetFails,
             CheckFailedAttempts, Revoke, IncrementFailedAttempts, ExpireFailedAttempts,
             Crash, Goto, Return
    <2>3. \A q \in Process : pc'[q] = "set" => pc[q] = "set" /\ mem'[q] = mem[q]
      BY <1>1, <1>8, <2>2, StepIsLocal DEF OnlyAt
    <2> QED
      BY <1>6, <2>1, <2>3
  <1>9. ASSUME NEW p \in Process, GetCode(p) PROVE m \in Copies
    <2>1. code' = code /\ OnlyAt(p)
      BY <1>1, <1>9, StepIsLocal DEF GetCode, store, Step
    <2>2. pc'[p] = "set" => mem'[p] = code
      BY <1>1, <1>9 DEF GetCode, Goto, Return, Keep
    <2> QED
      BY <1>3, <1>4, <1>5, <2>1, <2>2 DEF OnlyAt
  <1>10. ASSUME NEW p \in Process, UpdateCode(p)
         PROVE  \E k \in Copies : k.id = m.id /\ k.expireAt = m.expireAt
    <2>1. OnlyAt(p) /\ pc[p] = "set" /\ pc'[p] # "set"
      BY <1>1, <1>10, StepIsLocal DEF UpdateCode, Step, Goto, Return
    <2>2. code' = code \/ (code'.id = mem[p].id /\ code'.expireAt = mem[p].expireAt)
      BY <1>1, <1>10, ChangedType DEF UpdateCode
    <2> QED
      BY <1>3, <1>4, <1>5, <2>1, <2>2 DEF OnlyAt
  <1>11. ASSUME NEW p \in Process, GenerateSet(p)
         PROVE  m \in Copies \/ (m.id = generated + 1 /\ m.expireAt = now + ValidPeriod)
    <2>1. code'.id = generated + 1 /\ code'.expireAt = now + ValidPeriod
      BY <1>11 DEF GenerateSet, NoCode
    <2>2. \A q \in Process : pc'[q] = "set" => pc[q] = "set" /\ mem'[q] = mem[q]
      BY <1>1, <1>11 DEF GenerateSet, Goto
    <2> QED
      BY <1>3, <1>5, <2>1, <2>2
  <1> QED
    BY <1>7, <1>8, <1>9, <1>10, <1>11 DEF Next

\* A new code has not been guessed, and the process that generated it will reset the counter.
LEMMA NewCodeCounted ==
    ASSUME TypeInv, TypeInv', NotYetGuessed, NEW p \in Process, GenerateSet(p),
           NEW c \in Code, c = generated + 1, NEW e \in Nat
    PROVE  CountedUntil(c, e)'
  <1>1. c > generated
    BY CountersType DEF TypeInv
  <1>2. wrong[c] = 0 /\ wrong' = wrong /\ OnlyAt(p) /\ LocalsOK /\ pc'[p] = "reset"
    BY <1>1, StepIsLocal DEF NotYetGuessed, GenerateSet, Goto, Call, TypeInv, LocalsOK
  <1>3. CountsAreNumbers'
    <2>1. TypeInv' => CountsAreNumbers'
      BY CountsType, PTL
    <2> QED
      BY <2>1
  <1>4. NoReset' = 0
    BY <1>2, CountsMove
  <1>5. Counting(c)' \in Nat /\ Loose(c)' \in Nat /\ wrong'[c] = 0 /\ Others \in Nat
    BY <1>2, <1>3, HowMany DEF CountsAreNumbers
  <1> QED
    BY <1>4, <1>5 DEF CountedUntil, Others

\* Every live copy stays accounted for.
LEMMA CopiesCountedStep ==
    ASSUME TypeInv, TypeInv', GuessInv, [Next]_vars
    PROVE  CopiesCounted'
  <1> SUFFICES ASSUME NEW m \in Copies', m.id # None, now' < m.expireAt
               PROVE  m.expireAt <= now' + ValidPeriod /\ CountedUntil(m.id, m.expireAt)'
    BY DEF CopiesCounted, Live
  <1>1. now \in Nat /\ now' \in Nat /\ now <= now'
    <2>1. now \in Nat
      BY DEF TypeInv, StoreOK
    <2>2. now' = now \/ now' = now + 1
      BY DEF Next, Tick, Call, GenerateSet, BeginVerify, BeginVerifySubmitted, BeginConsume,
             BeginSubmit, BeginDelivered, Begin, Step, ResetFailedAttempts, ResetFails,
             CheckFailedAttempts, Revoke, IncrementFailedAttempts, ExpireFailedAttempts, GetCode,
             UpdateCode, Crash, vars
    <2> QED
      BY <2>1, <2>2
  <1>2. m \in CodeData
    BY DEF Copies, TypeInv, StoreOK, LocalsOK
  <1>3. m.id \in Code /\ m.expireAt \in Nat
    BY <1>2 DEF CodeData
  <1>4. ASSUME NEW k \in Copies, k.id = m.id, k.expireAt = m.expireAt
        PROVE  m.expireAt <= now' + ValidPeriod /\ CountedUntil(m.id, m.expireAt)'
    <2>1. Live(k)
      BY <1>1, <1>3, <1>4 DEF Live
    <2>2. m.expireAt <= now + ValidPeriod /\ CountedUntil(m.id, m.expireAt)
      BY <1>4, <2>1 DEF GuessInv, CopiesCounted
    <2>3. PICK c \in Code, e \in Nat : c = m.id /\ e = m.expireAt
      BY <1>3
    <2>4. CountedUntil(c, e)'
      BY <2>2, <2>3, CountedStep DEF GuessInv
    <2> QED
      BY <1>1, <1>3, <2>2, <2>3, <2>4
  <1>5. ASSUME NEW p \in Process, GenerateSet(p),
               m.id = generated + 1, m.expireAt = now + ValidPeriod
        PROVE  m.expireAt <= now' + ValidPeriod /\ CountedUntil(m.id, m.expireAt)'
    <2>1. PICK c \in Code, e \in Nat : c = m.id /\ e = m.expireAt
      BY <1>3
    <2>2. CountedUntil(c, e)'
      BY <1>5, <2>1, NewCodeCounted DEF GuessInv
    <2>3. m.expireAt <= now' + ValidPeriod
      <3>1. now' = now
        BY <1>5 DEF GenerateSet
      <3>2. now + ValidPeriod \in Nat
        BY <1>1
      <3> QED
        BY <1>5, <3>1, <3>2
    <2>4. CountedUntil(m.id, m.expireAt)'
      BY <2>1, <2>2
    <2> QED
      BY <2>3, <2>4
  <1> QED
    BY <1>4, <1>5, CopyOrigin

\* A wrong guess by p: the counter was not full when p passed its check, or p is one of those
\* who have still to count.
LEMMA GuessBound ==
    ASSUME TypeInv, GuessInv, NEW p \in Process, pc[p] = "get", op[p] \in Verifying,
           code.id # None
    PROVE  wrong[code.id] + 1 <= MaxFailedAttempts + 2 * Others + failures
  <1> DEFINE c == code.id
             e == code.expireAt
  <1>1. CountsAreNumbers
    BY CountsType
  <1>2. c \in Code /\ code \in Copies /\ Live(code)
    BY DEF TypeInv, StoreOK, CodeData, Copies, Live
  <1>3. CountedUntil(c, e)
    BY <1>2 DEF GuessInv, CopiesCounted
  <1>4. /\ Others \in Nat
        /\ Pending(c) + Cardinality(Expiring) <= Others
        /\ Pending(c) + 1 <= Cardinality(Guessing)
        /\ Pending(c) <= Others
    <2> DEFINE W == Waiting(c)
    <2>1. /\ W \in SUBSET Process /\ Expiring \in SUBSET Process /\ Guessing \in SUBSET Process
          /\ p \notin W /\ p \notin Expiring /\ p \in Guessing /\ W \subseteq Guessing
          /\ W \cap Expiring = {}
      BY DEF Waiting, Expiring, Guessing
    <2>2. Pending(c) = Cardinality(W)
      BY DEF Pending, Waiting
    <2> HIDE DEF W, c
    <2>3. /\ IsFiniteSet(W) /\ IsFiniteSet(Expiring) /\ IsFiniteSet(Guessing)
          /\ Cardinality(W) \in Nat /\ Cardinality(Expiring) \in Nat
          /\ Cardinality(Guessing) \in Nat
      BY <2>1, FS_Subset, FS_CardinalityType
    <2>4. Cardinality(W) + Cardinality(Expiring) <= Others
      <3>1. Cardinality(W \cup Expiring) = Cardinality(W) + Cardinality(Expiring)
        <4>1. Cardinality(W \cap Expiring) = 0
          BY <2>1, FS_EmptySet
        <4>2. Cardinality(W \cup Expiring)
                  = Cardinality(W) + Cardinality(Expiring) - Cardinality(W \cap Expiring)
          BY <2>3, FS_Union
        <4> QED
          BY <2>3, <4>1, <4>2
      <3>2. W \cup Expiring \in SUBSET Process /\ p \notin W \cup Expiring
        BY <2>1
      <3>3. Cardinality(W \cup Expiring) <= Others
        BY <3>2, HowMany
      <3> QED
        BY <3>1, <3>3
    <2>5. Cardinality(W) + 1 <= Cardinality(Guessing)
      <3>1. W \subseteq Guessing \ {p} /\ IsFiniteSet(Guessing \ {p})
            /\ Cardinality(Guessing \ {p}) = Cardinality(Guessing) - 1
        BY <2>1, <2>3, FS_RemoveElement
      <3>2. Cardinality(W) <= Cardinality(Guessing \ {p})
        BY <3>1, FS_Subset
      <3> QED
        BY <2>3, <3>1, <3>2
    <2>6. Cardinality(W) <= Others /\ Others \in Nat
      BY <2>1, HowMany
    <2> QED
      BY <2>2, <2>4, <2>5, <2>6
  <1>5. attempts >= MaxFailedAttempts
            => attempts + Cardinality(Guessing) <= MaxFailedAttempts + Others
    BY DEF GuessInv, CheckedFirst
  <1>6. wrong[c] \in Nat
    BY <1>1, <1>2 DEF CountsAreNumbers
  <1> HIDE DEF c, e
  <1>7. Pending(c) \in Nat /\ Cardinality(Expiring) \in Nat /\ Cardinality(Guessing) \in Nat
        /\ failures \in Nat /\ attempts \in Nat /\ NoReset \in {0, 1}
    BY <1>1, <1>2 DEF CountsAreNumbers
  <1>8. CASE countEnds = 0 \/ countEnds >= e
    <2>1. wrong[c] <= attempts + Pending(c) + failures + Others
      BY <1>3, <1>8 DEF CountedUntil, Counting
    <2>2. CASE attempts >= MaxFailedAttempts
      BY <1>4, <1>5, <1>6, <1>7, <2>1, <2>2 DEF c
    <2>3. CASE attempts < MaxFailedAttempts
      BY <1>4, <1>6, <1>7, <2>1, <2>3 DEF c
    <2> QED
      BY <1>7, <2>2, <2>3
  <1>9. CASE ~(countEnds = 0 \/ countEnds >= e)
    <2>1. wrong[c] + NoReset <= Pending(c) + Cardinality(Expiring) + failures
      BY <1>3, <1>9 DEF CountedUntil, Loose
    <2> QED
      BY <1>4, <1>6, <1>7, <2>1 DEF c
  <1> QED
    BY <1>8, <1>9

\* The bound is kept.
LEMMA GuessBoundStep ==
    ASSUME TypeInv, TypeInv', GuessInv, [Next]_vars
    PROVE  WrongGuessesAreBounded'
  <1> SUFFICES ASSUME NEW c \in Code
               PROVE  wrong'[c] <= MaxFailedAttempts + 2 * Others + failures'
    BY DEF WrongGuessesAreBounded, Others
  <1>1. /\ Others \in Nat /\ wrong \in [Code -> Nat] /\ failures \in Nat /\ failures' \in Nat
        /\ LocalsOK /\ code \in CodeData
    BY HowMany DEF TypeInv, StoreOK, HistoryOK
  <1>2. wrong[c] <= MaxFailedAttempts + 2 * Others + failures /\ wrong[c] \in Nat
    BY <1>1 DEF GuessInv, WrongGuessesAreBounded
  <1>3. failures' >= failures
    BY <1>1
       DEF Next, Tick, Call, GenerateSet, BeginVerify, BeginVerifySubmitted, BeginConsume,
           BeginSubmit, BeginDelivered, Begin, Step, ResetFailedAttempts, ResetFails,
           CheckFailedAttempts, Revoke, IncrementFailedAttempts, ExpireFailedAttempts, GetCode,
           UpdateCode, Crash, vars
  <1>4. ASSUME wrong'[c] = wrong[c] PROVE wrong'[c] <= MaxFailedAttempts + 2 * Others + failures'
    BY <1>1, <1>2, <1>3, <1>4
  <1>5. ASSUME NEW p \in Process, GetCode(p)
        PROVE  wrong'[c] <= MaxFailedAttempts + 2 * Others + failures'
    <2>1. CASE wrong' = wrong
      BY <1>4, <2>1
    <2>2. CASE /\ ~NothingToDo(p) /\ op[p] \in Verifying
               /\ wrong' = [wrong EXCEPT ![code.id] = @ + 1]
      <3>1. code.id # None /\ pc[p] = "get" /\ failures' = failures
        BY <1>5, <2>2 DEF NothingToDo, GetCode
      <3>2. wrong[code.id] + 1 <= MaxFailedAttempts + 2 * Others + failures
        BY <2>2, <3>1, GuessBound
      <3>3. CASE c = code.id
        BY <1>1, <2>2, <3>1, <3>2, <3>3
      <3>4. CASE c # code.id
        BY <1>1, <1>4, <2>2, <3>4
      <3> QED
        BY <3>3, <3>4
    <2> QED
      BY <1>5, <2>1, <2>2 DEF GetCode
  <1>6. ASSUME NEW p \in Process, ResetFailedAttempts(p)
        PROVE  wrong'[c] <= MaxFailedAttempts + 2 * Others + failures'
    <2>1. wrong'[c] = Pending(c) /\ Pending(c) \in Nat
      BY <1>6, PendingType DEF ResetFailedAttempts
    <2>2. wrong'[c] <= Others + 1
      BY <1>6, CountsType, ResetStep
    <2> QED
      BY <1>1, <2>1, <2>2
  <1>7. CASE Tick \/ UNCHANGED vars
    BY <1>4, <1>7 DEF Tick, vars, history
  <1>8. ASSUME NEW p \in Process, Call(p) PROVE wrong' = wrong
    BY <1>8 DEF Call, GenerateSet, BeginVerify, BeginVerifySubmitted, BeginConsume, BeginSubmit,
                BeginDelivered, Begin, history
  <1>9. ASSUME NEW p \in Process, Step(p), ~GetCode(p), ~ResetFailedAttempts(p)
        PROVE  wrong' = wrong
    BY <1>9 DEF Step, ResetFails, CheckFailedAttempts, Revoke, IncrementFailedAttempts,
                ExpireFailedAttempts, UpdateCode, Crash, history
  <1> QED
    BY <1>4, <1>5, <1>6, <1>7, <1>8, <1>9 DEF Next

\* GuessInv is inductive, given the invariants of the types and of the copies.
LEMMA GuessStep == TypeInv /\ TypeInv' /\ CopyInv /\ GuessInv /\ [Next]_vars => GuessInv'
  <1> SUFFICES ASSUME TypeInv, TypeInv', CopyInv, GuessInv, [Next]_vars PROVE GuessInv'
    OBVIOUS
  <1>1. CheckedFirst' /\ EndsCounted' /\ ResetThenSend' /\ NotYetGuessed'
    BY CheckedFirstStep, EndsCountedStep, ResetThenSendStep, NotYetGuessedStep DEF GuessInv
  <1>2. CopiesCounted' /\ WrongGuessesAreBounded'
    BY CopiesCountedStep, GuessBoundStep
  <1> QED
    BY <1>1, <1>2 DEF GuessInv

\* Initially nothing is counted.
LEMMA GuessInit == Init => GuessInv
  <1> SUFFICES ASSUME Init PROVE GuessInv
    OBVIOUS
  <1>1. /\ attempts = 0 /\ countEnds = 0 /\ failures = 0 /\ code = NoCode
        /\ \A p \in Process : pc[p] = "idle"
        /\ \A c \in Code : wrong[c] = 0
    BY DEF Init
  <1>2. CheckedFirst /\ EndsCounted /\ ResetThenSend /\ NotYetGuessed
    BY <1>1 DEF CheckedFirst, EndsCounted, ResetThenSend, NotYetGuessed
  <1>3. CopiesCounted
    BY <1>1 DEF CopiesCounted, Copies, Live, NoCode
  <1>4. WrongGuessesAreBounded
    BY <1>1, HowMany DEF WrongGuessesAreBounded
  <1> QED
    BY <1>2, <1>3, <1>4 DEF GuessInv

\* VerifyOTP (otp/service.go:279): however requests interleave, crash or lose the counter, a
\* code is compared with no more wrong guesses than the permitted ones, two for each other
\* process, and one for each step that failed.
THEOREM WrongGuessesCorrect == Spec => []WrongGuessesAreBounded
  <1>1. Init => GuessInv
    BY GuessInit
  <1>2. TypeInv /\ TypeInv' /\ CopyInv /\ GuessInv /\ [Next]_vars => GuessInv'
    BY GuessStep
  <1>3. GuessInv => WrongGuessesAreBounded
    BY DEF GuessInv
  <1> QED
    BY <1>1, <1>2, <1>3, TypeInvariant, CopyInvariant, PTL DEF Spec
=============================================================================
