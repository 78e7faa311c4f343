---------------------------- MODULE RecordProofs ----------------------------
(***************************************************************************)
(* Proofs about the records the program keeps.                             *)
(*                                                                         *)
(* Portfolio: the positions and the file they are saved to, for any        *)
(* positions and any number of threads.                                    *)
(*                                                                         *)
(* BaseMonitors: the pending transactions and the tracked blocks.  What an *)
(* undisturbed check has compared stays compared (ComparedIsSettled), and  *)
(* a mark does not outlive the header it was written with                  *)
(* (MarkedIsNotWhole), unless a head writes it in the middle of the        *)
(* replacement.  The two components share nothing.                         *)
(***************************************************************************)
EXTENDS Portfolio, BaseMonitors, SequenceTheorems, FiniteSetTheorems, TLAPS

(* Portfolio *)

Holding == {"pnl", "marshal", "open", "write", "rename"}
Filing == {"write", "rename"}

\* The arguments a call was made with.
ArgumentsOK(t) ==
  /\ thread[t].at \in Writers => thread[t].position \in Positions
  /\ thread[t].at = "update" => thread[t].arg \in {"open", "closed", None}
  /\ thread[t].at = "close" => thread[t].arg \in Returns

\* The positions do not change between their encoding and the end of a Save, and a
\* temporary file that is open exists.
Current(t) ==
  /\ thread[t].at \in {"open", "write"} => thread[t].data = positions
  /\ thread[t].at \in Filing => tmp \in {positions, Torn, None}
  /\ thread[t].at = "write" /\ thread[t].fd = "tmp" => tmp # None

\* A temporary file no other Save has opened belongs to at most one, which has it
\* open, and has written it before it renames it.
Alone(t) ==
  "tmp" \notin shared /\ tmp # None /\ thread[t].at \in Filing =>
    /\ thread[t].at = "write" => thread[t].fd = "tmp"
    /\ thread[t].at = "rename" => tmp # Torn
    /\ \A u \in Threads : thread[u].at \in Filing => u = t

IInv ==
  /\ TypeOK
  /\ TornOnlyIfShared
  /\ \A t \in Threads : ArgumentsOK(t) /\ Current(t) /\ Alone(t)
  /\ ~up => \A t \in Threads : thread[t].at = "idle"

---------------------------------------------------------------------------
(* The steps *)

LEMMA IdleIsTyped == Idle \in ThreadType
BY DEF Idle, ThreadType, Steps, NewPortfolio, Portfolios

LEMMA GrantedIsTyped ==
  ASSUME NEW r \in ThreadType, r.at \in Readers
  PROVE  /\ Granted(r) \in ThreadType
         /\ Granted(r).at \in {"marshal", "pnl"}
BY DEF Granted, ThreadType, Steps, Readers

LEMMA InitIInv == Init => IInv
<1> SUFFICES ASSUME Init PROVE IInv
  OBVIOUS
<1>1. \A t \in Threads : thread[t] = Idle /\ thread[t].at = "idle"
  BY DEF Init, Idle
<1>2. positions \in Portfolios
  BY DEF Init, NewPortfolio, Portfolios
<1>3. TypeOK
  BY <1>1, <1>2, IdleIsTyped DEF Init, TypeOK
<1> QED
  BY <1>1, <1>3, NoneIsNoFile
     DEF Init, IInv, TornOnlyIfShared, ArgumentsOK, Current, Alone, Writers, Filing

\* A write to the map finds no reader, so that there is no Save it could disturb.
LEMMA ChangeIInv ==
  ASSUME IInv, NEW t \in Threads, thread[t].at \in Writers, readers = {}, UnlockAndReturn(t),
         positions' \in Portfolios, up, UNCHANGED <<up, files>>
  PROVE  IInv'
<1> DEFINE waiting == {u \in Threads : thread[u].at \in Readers}
<1>1. \A u \in Threads : thread[u] \in ThreadType /\ thread[u].at \notin Holding
  BY DEF IInv, TypeOK, Holding
<1>2. ASSUME NEW u \in Threads
      PROVE  /\ thread'[u] \in ThreadType
             /\ thread'[u].at \in Holding <=> u \in readers'
             /\ thread'[u].at \in Holding => thread'[u].at \in {"marshal", "pnl"}
             /\ thread'[u].at \in Writers => thread'[u] = thread[u]
  <2>1. /\ readers' = waiting
        /\ thread'[u] = IF u = t THEN Idle ELSE IF u \in waiting THEN Granted(thread[u]) ELSE thread[u]
    BY DEF UnlockAndReturn
  <2>2. Idle.at = "idle"
    BY DEF Idle
  <2>3. CASE u = t
    BY <1>1, <2>1, <2>2, <2>3, IdleIsTyped DEF Holding, Writers, Readers
  <2>4. CASE u # t /\ u \in waiting
    BY <1>1, <2>1, <2>4, GrantedIsTyped DEF Holding, Writers
  <2>5. CASE u # t /\ u \notin waiting
    BY <1>1, <2>1, <2>5
  <2> QED
    BY <2>3, <2>4, <2>5
<1>3. TypeOK'
  <2>1. thread' \in [Threads -> ThreadType]
    BY <1>2 DEF UnlockAndReturn
  <2>2. readers' = {u \in Threads : thread'[u].at \in Holding}
    BY <1>2 DEF UnlockAndReturn
  <2> QED
    BY <2>1, <2>2 DEF IInv, TypeOK, files, Holding
<1>4. TornOnlyIfShared'
  BY DEF IInv, TornOnlyIfShared, files
<1>5. ASSUME NEW u \in Threads
      PROVE  ArgumentsOK(u)' /\ Current(u)' /\ Alone(u)'
  <2>1. thread'[u].at \notin {"open", "write", "rename"}
    BY <1>2 DEF Holding
  <2>2. Current(u)' /\ Alone(u)'
    BY <2>1 DEF Current, Alone, Filing
  <2>3. thread'[u].at \in Writers => thread'[u] = thread[u] /\ ArgumentsOK(u)
    BY <1>2 DEF IInv
  <2>4. ArgumentsOK(u)'
    BY <2>3 DEF ArgumentsOK, Writers
  <2> QED
    BY <2>2, <2>4
<1> QED
  BY <1>3, <1>4, <1>5 DEF IInv

\* The steps of a call change its own thread alone, and return or stay under the lock.
LEMMA OwnStepIInv ==
  ASSUME IInv, NEW t \in Threads, NEW r \in ThreadType,
         thread' = [thread EXCEPT ![t] = r],
         r.at \notin Filing,
         r.at \in Writers => r.position \in Positions,
         r.at = "update" => r.arg \in {"open", "closed", None},
         r.at = "close" => r.arg \in Returns,
         r.at = "open" => r.data = positions,
         readers' = {u \in Threads : thread'[u].at \in Holding},
         up, UNCHANGED <<up, positions, files>>
  PROVE  IInv'
<1>1. \A u \in Threads : thread'[u] = IF u = t THEN r ELSE thread[u]
  BY DEF IInv, TypeOK
<1>2. TypeOK'
  BY DEF IInv, TypeOK, files, Holding
<1>3. ASSUME NEW u \in Threads
      PROVE  ArgumentsOK(u)' /\ Current(u)' /\ Alone(u)'
  <2>1. CASE u = t
    BY <1>1, <2>1 DEF ArgumentsOK, Current, Alone, Writers, Filing
  <2>2. CASE u # t
    BY <1>1, <2>2 DEF IInv, ArgumentsOK, Current, Alone, files
  <2> QED
    BY <2>1, <2>2
<1> QED
  BY <1>2, <1>3 DEF IInv, TornOnlyIfShared, files

LEMMA CallIInv ==
  ASSUME IInv, NEW t \in Threads, Begin(t)
  PROVE  IInv'
<1>1. ASSUME NEW step \in Writers \cup Readers, NEW p \in Positions \cup {None},
             NEW arg \in {"open", "closed", None} \cup Returns, Call(t, step, p, arg),
             step \in Writers => p \in Positions,
             step = "update" => arg \in {"open", "closed", None},
             step = "close" => arg \in Returns
      PROVE  IInv'
  <2> DEFINE r == [thread[t] EXCEPT !.at = step, !.position = p, !.arg = arg]
  <2>1. thread[t] \in ThreadType /\ thread' = [thread EXCEPT ![t] = r]
    BY <1>1 DEF Call, IInv, TypeOK
  <2> DEFINE a == [thread[t] EXCEPT !.at = step]
             b == [a EXCEPT !.position = p]
  <2>2. a \in ThreadType /\ a.at = step
    BY <2>1 DEF ThreadType, Steps
  <2> HIDE DEF a
  <2>3. r \in ThreadType /\ r.at = step /\ r.position = p /\ r.arg = arg
    <3>1. b \in ThreadType /\ b.at = step /\ b.position = p
      BY <2>2 DEF ThreadType
    <3>2. r = [b EXCEPT !.arg = arg]
      BY DEF a
    <3> HIDE DEF b, r
    <3> QED
      BY <3>1, <3>2 DEF ThreadType
  <2> HIDE DEF r
  <2>4. step \notin Filing /\ step \notin Holding /\ step # "open"
    BY DEF Filing, Holding, Writers, Readers
  <2>5. readers' = {u \in Threads : thread'[u].at \in Holding}
    BY <1>1, <2>1, <2>3, <2>4 DEF Call, IInv, TypeOK, Holding
  <2> QED
    BY <1>1, <2>1, <2>3, <2>4, <2>5, OwnStepIInv DEF Call, Begin
<1>2. {"add", "remove", "update", "close"} \subseteq Writers
  BY DEF Writers
<1>3. ASSUME NEW step \in Readers, Call(t, step, None, None) PROVE IInv'
  BY <1>1, <1>3 DEF Readers, Writers
<1>4. ASSUME NEW p \in Positions, NEW step \in {"add", "remove"}, Call(t, step, p, None) PROVE IInv'
  BY <1>1, <1>2, <1>4
<1>5. ASSUME NEW p \in Positions, NEW status \in {"open", "closed", None}, Call(t, "update", p, status)
      PROVE  IInv'
  BY <1>1, <1>2, <1>5
<1>6. ASSUME NEW p \in Positions, NEW x \in Returns, Call(t, "close", p, x) PROVE IInv'
  BY <1>1, <1>2, <1>6
<1> QED
  BY <1>3, <1>4, <1>5, <1>6 DEF Begin

LEMMA ReturnIInv ==
  ASSUME IInv, NEW t \in Threads, RUnlockAndReturn(t), up, UNCHANGED <<up, positions, files>>
  PROVE  IInv'
<1>1. Idle.at = "idle"
  BY DEF Idle
<1>2. thread' = [thread EXCEPT ![t] = Idle] /\ readers' = readers \ {t}
  BY DEF RUnlockAndReturn
<1>3. readers' = {u \in Threads : thread'[u].at \in Holding}
  BY <1>1, <1>2 DEF IInv, TypeOK, Holding
<1> QED
  BY <1>1, <1>2, <1>3, IdleIsTyped, OwnStepIInv DEF Filing, Writers

LEMMA RLockIInv ==
  ASSUME IInv, NEW t \in Threads, RLock(t)
  PROVE  IInv'
<1>1. thread[t] \in ThreadType /\ thread[t].at \in Readers
  BY DEF RLock, CanRLock, IInv, TypeOK
<1>2. Granted(thread[t]) \in ThreadType /\ Granted(thread[t]).at \in {"marshal", "pnl"}
  BY <1>1, GrantedIsTyped
<1>3. thread' = [thread EXCEPT ![t] = Granted(thread[t])]
  BY DEF RLock
<1>4. readers' = {u \in Threads : thread'[u].at \in Holding}
  BY <1>2, <1>3 DEF RLock, IInv, TypeOK, Holding
<1>5. up /\ UNCHANGED <<up, positions, files>>
  BY <1>1 DEF RLock, IInv, Readers
<1> HIDE DEF Granted
<1> QED
  BY <1>2, <1>3, <1>4, <1>5, OwnStepIInv DEF Filing, Writers

LEMMA MarshalIInv ==
  ASSUME IInv, NEW t \in Threads, Marshal(t)
  PROVE  IInv'
<1> DEFINE r == [thread[t] EXCEPT !.at = "open", !.data = positions]
<1>1. thread[t] \in ThreadType /\ thread[t].at = "marshal" /\ positions \in Portfolios
  BY DEF Marshal, IInv, TypeOK
<1>2. thread' = [thread EXCEPT ![t] = r]
  BY DEF Marshal, IInv, TypeOK
<1>3. "open" \in Steps
  BY DEF Steps
<1>4. r \in ThreadType /\ r.at = "open" /\ r.data = positions
  <2> DEFINE b == [thread[t] EXCEPT !.at = "open"]
  <2>1. b \in ThreadType /\ b.at = "open"
    BY <1>1, <1>3 DEF ThreadType
  <2>2. r = [b EXCEPT !.data = positions]
    OBVIOUS
  <2> HIDE DEF b, r
  <2> QED
    BY <1>1, <2>1, <2>2 DEF ThreadType
<1> HIDE DEF r
<1>5. readers' = {u \in Threads : thread'[u].at \in Holding}
  BY <1>1, <1>2, <1>4 DEF Marshal, IInv, TypeOK, Holding
<1>6. up /\ UNCHANGED <<up, positions, files>>
  BY <1>1 DEF Marshal, IInv
<1> QED
  BY <1>2, <1>4, <1>5, <1>6, OwnStepIInv DEF Filing, Writers

LEMMA OpenTmpIInv ==
  ASSUME IInv, NEW t \in Threads, OpenTmp(t)
  PROVE  IInv'
<1> DEFINE r == [thread[t] EXCEPT !.at = "write", !.fd = "tmp"]
<1>1. thread[t] \in ThreadType /\ thread[t].at = "open" /\ thread[t].data = positions
  BY DEF OpenTmp, IInv, TypeOK, Current
<1>2. thread' = [thread EXCEPT ![t] = r]
  BY DEF OpenTmp, IInv, TypeOK
<1>3. "write" \in Steps
  BY DEF Steps
<1>4. r \in ThreadType /\ r.at = "write" /\ r.data = positions /\ r.fd = "tmp"
  <2> DEFINE b == [thread[t] EXCEPT !.at = "write"]
  <2>1. b \in ThreadType /\ b.at = "write" /\ b.data = positions
    BY <1>1, <1>3 DEF ThreadType
  <2>2. r = [b EXCEPT !.fd = "tmp"]
    OBVIOUS
  <2> HIDE DEF b, r
  <2> QED
    BY <1>1, <2>1, <2>2 DEF ThreadType
<1> HIDE DEF r
<1>5. \A u \in Threads : thread'[u] = IF u = t THEN r ELSE thread[u]
  BY <1>2 DEF IInv, TypeOK
<1>6. TypeOK'
  <2>1. readers' = {u \in Threads : thread'[u].at \in Holding}
    BY <1>1, <1>4, <1>5 DEF OpenTmp, IInv, TypeOK, Holding
  <2> QED
    BY <1>2, <1>4, <2>1 DEF OpenTmp, IInv, TypeOK, Holding
<1>7. TornOnlyIfShared'
  BY DEF OpenTmp, IInv, TornOnlyIfShared
<1>8. ASSUME NEW u \in Threads
      PROVE  ArgumentsOK(u)' /\ Current(u)' /\ Alone(u)'
  <2>1. tmp' = Torn /\ positions' = positions
    BY DEF OpenTmp
  <2>2. ArgumentsOK(u)' /\ Current(u)'
    BY <1>4, <1>5, <2>1, NoneIsNoFile DEF IInv, ArgumentsOK, Current, Writers, Filing
  <2>3. Alone(u)'
    <3>1. CASE Overlapped
      BY <3>1 DEF OpenTmp, Alone
    <3>2. CASE ~Overlapped
      BY <1>4, <1>5, <3>2 DEF Overlapped, Alone, Filing
    <3> QED
      BY <3>1, <3>2
  <2> QED
    BY <2>2, <2>3
<1> QED
  BY <1>1, <1>6, <1>7, <1>8 DEF OpenTmp, IInv

LEMMA WriteIInv ==
  ASSUME IInv, NEW t \in Threads, Write(t)
  PROVE  IInv'
<1> DEFINE r == [thread[t] EXCEPT !.at = "rename", !.fd = None]
<1>1. thread[t] \in ThreadType /\ thread[t].at = "write" /\ thread[t].data = positions
  BY DEF Write, IInv, TypeOK, Current
<1>2. thread' = [thread EXCEPT ![t] = r]
  BY DEF Write, IInv, TypeOK
<1>3. "rename" \in Steps
  BY DEF Steps
<1>4. r \in ThreadType /\ r.at = "rename"
  <2> DEFINE b == [thread[t] EXCEPT !.at = "rename"]
  <2>1. b \in ThreadType /\ b.at = "rename"
    BY <1>1, <1>3 DEF ThreadType
  <2>2. r = [b EXCEPT !.fd = None]
    OBVIOUS
  <2> HIDE DEF b, r
  <2> QED
    BY <1>1, <2>1, <2>2 DEF ThreadType
<1> HIDE DEF r
<1>5. \A u \in Threads : thread'[u] = IF u = t THEN r ELSE thread[u]
  BY <1>2 DEF IInv, TypeOK
<1>6. /\ positions \in Portfolios /\ positions' = positions
      /\ positions # Torn /\ positions # None
      /\ tmp' \in {tmp, positions} /\ path' \in {path, positions}
      /\ thread[t].fd = "tmp" => tmp' = positions
      /\ shared' = shared
  BY <1>1, NoneIsNoFile, TornIsNoPortfolio DEF Write, IInv, TypeOK
<1>7. TypeOK'
  <2>1. readers' = {u \in Threads : thread'[u].at \in Holding}
    BY <1>1, <1>4, <1>5 DEF Write, IInv, TypeOK, Holding
  <2> QED
    BY <1>2, <1>4, <1>6, <2>1 DEF Write, IInv, TypeOK, Holding
<1>8. TornOnlyIfShared'
  BY <1>6 DEF IInv, TornOnlyIfShared
<1>9. ASSUME NEW u \in Threads
      PROVE  ArgumentsOK(u)' /\ Current(u)' /\ Alone(u)'
  <2>1. ArgumentsOK(u)'
    BY <1>4, <1>5 DEF IInv, ArgumentsOK, Writers
  <2>2. Current(u)'
    <3>1. CASE u = t
      <4>1. tmp \in {positions, Torn, None}
        BY <1>1 DEF IInv, Current, Filing
      <4> QED
        BY <1>4, <1>5, <1>6, <3>1, <4>1 DEF Current, Filing
    <3>2. CASE u # t
      BY <1>5, <1>6, <3>2 DEF IInv, Current
    <3> QED
      BY <3>1, <3>2
  <2>3. Alone(u)'
    <3>1. tmp = None => tmp' = None
      BY <1>1 DEF Write, IInv, Current
    <3>2. ("tmp" \notin shared /\ tmp # None) =>
            /\ thread[t].fd = "tmp"
            /\ \A v \in Threads : thread[v].at \in Filing => v = t
      BY <1>1 DEF IInv, Alone, Filing
    <3> QED
      BY <1>4, <1>5, <1>6, <3>1, <3>2 DEF Alone, Filing
  <2> QED
    BY <2>1, <2>2, <2>3
<1> QED
  BY <1>1, <1>7, <1>8, <1>9 DEF Write, IInv

LEMMA RenameIInv ==
  ASSUME IInv, NEW t \in Threads, Rename(t)
  PROVE  IInv'
<1>1. \A u \in Threads :
        thread'[u] = IF u = t THEN Idle ELSE [thread[u] EXCEPT !.fd = Moved(@)]
  BY DEF Rename
<1>2. Idle.at = "idle"
  BY DEF Idle
<1>3. ASSUME NEW u \in Threads, u # t
      PROVE  /\ thread'[u] \in ThreadType
             /\ thread'[u].fd # "tmp"
             /\ thread'[u].at = thread[u].at /\ thread'[u].data = thread[u].data
             /\ thread'[u].position = thread[u].position /\ thread'[u].arg = thread[u].arg
  <2> DEFINE fd == Moved(thread[u].fd)
  <2>1. thread[u] \in ThreadType
    BY DEF IInv, TypeOK
  <2>2. fd \in {"path", None}
    BY <2>1, NoneIsNothing DEF Moved, ThreadType
  <2>3. thread'[u] = [thread[u] EXCEPT !.fd = fd]
    BY <1>1, <1>3
  <2> HIDE DEF fd
  <2> QED
    BY <2>1, <2>2, <2>3, NoneIsNothing DEF ThreadType
<1>4. tmp' = None /\ positions' = positions /\ path' = tmp /\ up' = up
  BY DEF Rename
<1>5. TypeOK'
  <2>1. thread' \in [Threads -> ThreadType]
    <3>1. \A u \in Threads : thread'[u] \in ThreadType
      BY <1>1, <1>3, IdleIsTyped
    <3> QED
      BY <3>1 DEF Rename
  <2>2. readers' = {u \in Threads : thread'[u].at \in Holding}
    BY <1>1, <1>2, <1>3 DEF Rename, IInv, TypeOK, Holding
  <2>3. shared' \subseteq {"tmp", "path"}
    BY DEF Rename
  <2> QED
    BY <1>4, <2>1, <2>2, <2>3 DEF IInv, TypeOK, Holding
<1>6. TornOnlyIfShared'
  <2>1. tmp = Torn => "tmp" \in shared
    BY DEF Rename, IInv, Alone, Filing
  <2> QED
    BY <1>4, <2>1 DEF Rename, TornOnlyIfShared
<1>7. ASSUME NEW u \in Threads
      PROVE  ArgumentsOK(u)' /\ Current(u)' /\ Alone(u)'
  <2>1. CASE u = t
    BY <1>1, <1>2, <2>1 DEF ArgumentsOK, Current, Alone, Writers, Filing
  <2>2. CASE u # t
    BY <1>3, <1>4, <2>2 DEF IInv, ArgumentsOK, Current, Alone
  <2> QED
    BY <2>1, <2>2
<1> QED
  BY <1>4, <1>5, <1>6, <1>7 DEF Rename, IInv

LEMMA CrashIInv ==
  ASSUME IInv, Crash
  PROVE  IInv'
<1>1. \A u \in Threads : thread'[u] = Idle /\ thread'[u].at = "idle"
  BY DEF Crash, Idle
<1>2. TypeOK'
  BY <1>1, IdleIsTyped DEF Crash, IInv, TypeOK, files, NewPortfolio, Portfolios
<1> QED
  BY <1>1, <1>2
  DEF Crash, files, IInv, TornOnlyIfShared, ArgumentsOK, Current, Alone, Writers, Filing

\* Nobody has called the portfolio when it is loaded.
LEMMA LoadPortfolioIInv ==
  ASSUME IInv, LoadPortfolio
  PROVE  IInv'
<1>1. \A u \in Threads : thread[u].at = "idle"
  BY DEF IInv, LoadPortfolio
<1>2. positions' \in Portfolios
  BY DEF LoadPortfolio, IInv, TypeOK, NewPortfolio, Portfolios
<1>3. TypeOK'
  BY <1>2 DEF LoadPortfolio, IInv, TypeOK, files
<1> QED
  BY <1>1, <1>3
  DEF LoadPortfolio, files, IInv, TornOnlyIfShared, ArgumentsOK, Current, Alone, Writers, Filing

---------------------------------------------------------------------------
(* The inductive invariant *)

LEMMA PositionsIInv ==
  ASSUME IInv, NEW t \in Threads,
         AddPosition(t) \/ UpdatePosition(t) \/ ClosePosition(t) \/ RemovePosition(t)
  PROVE  IInv'
<1> DEFINE p == thread[t].position
<1>1. /\ thread[t].at \in Writers /\ readers = {} /\ UnlockAndReturn(t)
      /\ UNCHANGED <<up, files>>
  BY DEF AddPosition, UpdatePosition, ClosePosition, RemovePosition, Change, CanLock, Writers
<1>2. up /\ p \in Positions /\ positions \in Portfolios
  BY <1>1 DEF IInv, TypeOK, ArgumentsOK, Writers
<1>3. PICK new \in Position \cup {None} : positions' \in {positions, [positions EXCEPT ![p] = new]}
  <2>1. ASSUME NEW step, NEW allowed, NEW new \in Position \cup {None}, Change(t, step, allowed, new)
        PROVE  positions' \in {positions, [positions EXCEPT ![p] = new]}
    BY <2>1 DEF Change
  <2>2. ASSUME AddPosition(t)
        PROVE  positions' \in {positions, [positions EXCEPT ![p] = [status |-> "open", totalReturn |-> None]]}
    BY <2>1, <2>2 DEF AddPosition, Position
  <2>3. ASSUME UpdatePosition(t)
        PROVE  \E new \in Position \cup {None} : positions' \in {positions, [positions EXCEPT ![p] = new]}
    <3>1. CASE Stored(t) # None /\ thread[t].arg # None
      <4> DEFINE new == [Stored(t) EXCEPT !.status = thread[t].arg]
      <4>1. Stored(t) \in Position /\ thread[t].arg \in {"open", "closed"}
        BY <1>2, <2>3, <3>1
        DEF UpdatePosition, Change, CanLock, IInv, ArgumentsOK, Portfolios, Stored
      <4>2. new \in Position
        BY <4>1 DEF Position
      <4> QED
        BY <2>3, <4>2 DEF UpdatePosition, Change
    <3>2. CASE ~(Stored(t) # None /\ thread[t].arg # None)
      BY <2>3, <3>2 DEF UpdatePosition, Change
    <3> QED
      BY <3>1, <3>2
  <2>4. ASSUME ClosePosition(t)
        PROVE  \E new \in Position \cup {None} : positions' \in {positions, [positions EXCEPT ![p] = new]}
    <3>1. [status |-> "closed", totalReturn |-> thread[t].arg] \in Position
      BY <2>4 DEF ClosePosition, Change, CanLock, IInv, ArgumentsOK, Position
    <3> QED
      BY <2>4, <3>1 DEF ClosePosition, Change
  <2>5. ASSUME RemovePosition(t)
        PROVE  positions' \in {positions, [positions EXCEPT ![p] = None]}
    BY <2>1, <2>5 DEF RemovePosition
  <2>6. [status |-> "open", totalReturn |-> None] \in Position
    BY DEF Position
  <2> QED
    BY <2>2, <2>3, <2>4, <2>5, <2>6
<1>4. positions' \in Portfolios
  BY <1>2, <1>3 DEF Portfolios
<1> QED
  BY <1>1, <1>2, <1>4, ChangeIInv

LEMMA StepIInv ==
  ASSUME IInv, NEW t \in Threads, Step(t)
  PROVE  IInv'
<1>1. CASE CalculateTotalPnL(t)
  BY <1>1, ReturnIInv DEF CalculateTotalPnL, CanRLock, IInv
<1>2. CASE WriteFails(t) \/ RenameFails(t)
  BY <1>2, ReturnIInv DEF WriteFails, RenameFails, IInv
<1> QED
  BY <1>1, <1>2, PositionsIInv, RLockIInv, MarshalIInv, OpenTmpIInv, WriteIInv, RenameIInv
  DEF Step, Save

LEMMA NextIInv == IInv /\ [Next]_vars => IInv'
<1> SUFFICES ASSUME IInv, [Next]_vars PROVE IInv'
  OBVIOUS
<1>1. CASE UNCHANGED vars
  BY <1>1 DEF vars, files, IInv, TypeOK, TornOnlyIfShared, ArgumentsOK, Current, Alone
<1> QED
  BY <1>1, StepIInv, CallIInv, CrashIInv, LoadPortfolioIInv DEF Next

LEMMA Invariance == Spec => []IInv
BY InitIInv, NextIInv, PTL DEF Spec

---------------------------------------------------------------------------
(* Theorems *)

\* Every state is well typed, and the threads between RLock and RUnlock are the readers:
\* no call returns with the lock, and none works without it.
THEOREM PortfolioTypeCorrect == Spec => []TypeOK
BY Invariance, PTL DEF IInv

\* A reader of the saved file finds a whole portfolio, unless two Saves shared their
\* temporary file.
THEOREM WriteFileIsAtomicAlone == Spec => []TornOnlyIfShared
BY Invariance, PTL DEF IInv

\* What a Save puts in place is the portfolio of that moment, whoever wrote it.
THEOREM SavesPublishThePresent == Spec => PublishedIsCurrent
<1> DEFINE Publish == path' # path => path' \in {positions, Torn}
<1>1. IInv /\ [Next]_vars => [Publish]_vars
  <2> SUFFICES ASSUME IInv, Next, path' # path PROVE path' \in {positions, Torn}
    BY DEF vars
  <2>1. PICK t \in Threads : Rename(t) \/ Write(t)
    BY DEF Next, Step, Begin, Call, Save, Crash, LoadPortfolio, AddPosition, UpdatePosition,
           ClosePosition, RemovePosition, Change, RLock, CalculateTotalPnL, Marshal, OpenTmp,
           WriteFails, RenameFails, files
  <2>2. CASE Rename(t)
    BY <2>2 DEF Rename, IInv, Current, Filing
  <2>3. CASE Write(t)
    BY <2>3 DEF Write, IInv, Current
  <2> QED
    BY <2>1, <2>2, <2>3
<1> QED
  BY <1>1, Invariance, PTL DEF Spec, PublishedIsCurrent

\* A position that is closed and stays closed keeps the return it was closed with.
THEOREM ReturnIsKept == Spec => ReturnRecordedOnce
<1> DEFINE Keep ==
      \A p \in Positions :
        (up' /\ up /\ positions[p] # None /\ positions'[p] # None) =>
          (positions[p].status = "closed" /\ positions'[p].status = "closed" =>
             positions'[p].totalReturn = positions[p].totalReturn)
<1>1. IInv /\ [Next]_vars => [Keep]_vars
  <2> SUFFICES ASSUME IInv, Next, up, up', NEW p \in Positions,
                      positions[p] # None, positions'[p] # None,
                      positions[p].status = "closed", positions'[p].status = "closed"
               PROVE  positions'[p].totalReturn = positions[p].totalReturn
    OBVIOUS
  <2>1. positions \in Portfolios /\ positions[p] \in Position
    BY DEF IInv, TypeOK, Portfolios
  <2>2. ASSUME NEW t \in Threads, NEW step, NEW allowed \in BOOLEAN, NEW new,
               Change(t, step, allowed, new)
        PROVE  \/ positions'[p] = positions[p]
               \/ allowed /\ thread[t].position = p /\ positions'[p] = new
    BY <2>1, <2>2 DEF Change, Portfolios
  <2>3. CASE positions' = positions
    BY <2>3
  <2>4. ASSUME NEW t \in Threads, AddPosition(t) PROVE positions'[p] = positions[p]
    <3>1. Change(t, "add", Stored(t) = None, [status |-> "open", totalReturn |-> None])
      BY <2>4 DEF AddPosition
    <3> QED
      BY <2>2, <3>1 DEF Stored
  <2>5. ASSUME NEW t \in Threads, UpdatePosition(t)
        PROVE  positions'[p].totalReturn = positions[p].totalReturn
    <3> DEFINE new == [Stored(t) EXCEPT !.status = thread[t].arg]
    <3>1. Change(t, "update", Stored(t) # None /\ thread[t].arg # None, new)
      BY <2>5 DEF UpdatePosition
    <3>2. CASE positions'[p] = positions[p]
      BY <3>2
    <3>3. CASE thread[t].position = p /\ positions'[p] = new
      BY <2>1, <3>3 DEF Stored, Position
    <3> HIDE DEF new
    <3> QED
      BY <2>2, <3>1, <3>2, <3>3
  <2>6. ASSUME NEW t \in Threads, ClosePosition(t) PROVE positions'[p] = positions[p]
    <3>1. Change(t, "close", Stored(t) # None /\ Stored(t).status # "closed",
                 [status |-> "closed", totalReturn |-> thread[t].arg])
      BY <2>6 DEF ClosePosition
    <3> QED
      BY <2>2, <3>1 DEF Stored
  <2>7. ASSUME NEW t \in Threads, RemovePosition(t) PROVE positions'[p] = positions[p]
    <3>1. Change(t, "remove", Stored(t) # None, None)
      BY <2>7 DEF RemovePosition
    <3> QED
      BY <2>2, <3>1
  <2>8. ASSUME NEW t \in Threads, RLock(t) \/ CalculateTotalPnL(t) \/ Save(t) \/ Begin(t)
        PROVE  positions' = positions
    BY <2>8 DEF RLock, CalculateTotalPnL, Save, Marshal, OpenTmp, Write, WriteFails, Rename,
                RenameFails, Begin, Call
  <2>9. ~Crash /\ ~LoadPortfolio
    BY DEF Crash, LoadPortfolio
  <2> QED
    BY <2>3, <2>4, <2>5, <2>6, <2>7, <2>8, <2>9 DEF Next, Step
<1> QED
  BY <1>1, Invariance, PTL DEF Spec, ReturnRecordedOnce

---------------------------------------------------------------------------
(* BaseMonitors: the parts of the inductive invariant *)

\* A transaction is as old as the ticks since it was seen, of which the cleanup has
\* gone over all but those since its last run.
PendingIsYoung == \A h \in DOMAIN pendingTxs : pendingTxs[h] <= TxLifetime + elapsed

\* A check that nothing has disturbed still sees what it began with.
QuietIsUndisturbed ==
  quiet /\ check.at # "idle" =>
    /\ head = NoHead /\ check.latest = lastBlock
    /\ check.at # "fetching" => check.number <= check.latest

\* What it has compared it has left with the node's header.
ComparedIsSettled ==
  quiet /\ check.at # "idle" =>
    /\ \A n \in DOMAIN blocks : n \in Minus(lastBlock, Depth) .. check.number - 1 =>
         blocks[n] = [block |-> chain[n], whole |-> TRUE]
    /\ check.at \in {"comparing", "unmarking", "replacing"} => check.header = chain[check.number]

\* A mark goes when the node's header comes, and comes back with a head, which takes
\* the header away again, unless it has been written in the middle of the two.
MarkedIsNotWhole ==
  /\ \A n \in DOMAIN blocks : blocks[n].whole /\ Marked(n) =>
       n \in raced \/ (head.at = "storing" /\ mined[head.block].number = n)
  /\ check.at = "replacing" /\ Marked(check.number) => check.number \in raced

---------------------------------------------------------------------------
(* The block tracker *)

TrackerIInv == TrackerTypeOK /\ QuietIsUndisturbed /\ ComparedIsSettled /\ MarkedIsNotWhole

LEMMA FunctionIsSequence ==
  ASSUME NEW S, NEW n \in Nat, NEW s \in [1 .. n -> S]
  PROVE  s \in Seq(S) /\ Len(s) = n
OBVIOUS

LEMMA ElementIsIn ==
  ASSUME NEW S, NEW s \in Seq(S), NEW i \in 1 .. Len(s)
  PROVE  s[i] \in S
OBVIOUS

LEMMA Concatenation ==
  ASSUME NEW S, NEW s \in Seq(S), NEW t \in Seq(S), NEW u, u = s \o t
  PROVE  /\ u \in Seq(S) /\ Len(u) = Len(s) + Len(t)
         /\ \A i \in 1 .. Len(s) : u[i] = s[i]
OBVIOUS

LEMMA PrefixIsSequence ==
  ASSUME NEW S, NEW s \in Seq(S), NEW n \in 1 .. Len(s)
  PROVE  SubSeq(s, 1, n) \in Seq(S) /\ Len(SubSeq(s, 1, n)) = n
OBVIOUS

Mined == [number : Nat, parent : Nat]

LEMMA HeadHasNumber ==
  ASSUME TrackerIInv, head.at # "idle"
  PROVE  mined[head.block].number \in Nat
<1>1. mined \in Seq(Mined) /\ head.block \in 1 .. Len(mined)
  BY DEF TrackerIInv, TrackerTypeOK, Mined
<1>2. mined[head.block] \in Mined
  BY <1>1, ElementIsIn
<1>3. QED
  BY <1>2 DEF Mined

LEMMA MinusIsInt == \A a, b \in Nat : Minus(a, b) \in Int
BY TrackerSizes DEF Minus

LEMMA TrackerInitIInv == TrackerInit => TrackerIInv
<1> SUFFICES ASSUME TrackerInit PROVE TrackerIInv
  OBVIOUS
<1>1. StartHeight \in Nat /\ StartHeight > 0
  BY TrackerSizes
<1>2. mined \in Seq(Mined) /\ chain \in Seq(Nat) /\ Len(chain) = StartHeight
  <2>1. mined \in [1 .. StartHeight -> Mined]
    BY <1>1 DEF TrackerInit, Mined
  <2>2. chain \in [1 .. StartHeight -> Nat]
    BY <1>1 DEF TrackerInit
  <2>3. chain = [i \in 1 .. StartHeight |-> i]
    BY DEF TrackerInit
  <2>4. QED
    BY <1>1, <2>1, <2>2, <2>3, FunctionIsSequence
<1>3. /\ blocks \in [DOMAIN blocks -> Blocks] /\ DOMAIN blocks \subseteq Int
      /\ canonical \in [DOMAIN canonical -> BOOLEAN] /\ DOMAIN canonical = {}
  BY <1>1 DEF TrackerInit, Blocks
<1>4. head = [at |-> "idle", block |-> 0, parent |-> [block |-> 0, whole |-> FALSE]]
  BY DEF TrackerInit, NoHead, Nobody
<1>5. check = [at |-> "idle", number |-> 0, latest |-> 0, header |-> 0]
  BY DEF TrackerInit, NoCheck
<1>6. heads \in Seq(1 .. Len(mined)) /\ lastBlock \in Nat /\ quiet = FALSE
  BY <1>1 DEF TrackerInit
<1>7. TrackerTypeOK
  <2>1. /\ head \in [at : {"idle", "marking", "storing"}, block : Nat, parent : Blocks]
        /\ head.at = "idle"
    BY <1>4 DEF Blocks
  <2>2. check \in [at : {"idle", "fetching", "comparing", "unmarking", "replacing"},
                  number : Int, latest : Nat, header : Nat]
    BY <1>5
  <2>3. Len(chain) >= StartHeight
    BY <1>1, <1>2
  <2>6. quiet \in BOOLEAN
    BY <1>6
  <2>4. head.at # "idle" => head.block \in 1 .. Len(mined)
    BY <2>1
  <2>5. canonical \in [DOMAIN canonical -> BOOLEAN] /\ DOMAIN canonical \subseteq Int
    BY <1>3
  <2>7. QED
    BY <1>2, <1>3, <1>6, <2>1, <2>2, <2>3, <2>4, <2>5, <2>6 DEF TrackerTypeOK, Mined
<1>8. MarkedIsNotWhole
  BY <1>3, <1>5 DEF MarkedIsNotWhole, Marked
<1>9. QED
  BY <1>6, <1>7, <1>8 DEF TrackerIInv, QuietIsUndisturbed, ComparedIsSettled

LEMMA ChainGrows ==
  ASSUME TrackerIInv, NEW k \in 0 .. MaxReorg, Mine(k)
  PROVE  TrackerIInv'
<1> DEFINE from == Len(chain) - k
           new == [i \in 1 .. k + 1 |->
                     [number |-> from + i,
                      parent |-> IF i = 1 THEN chain[from] ELSE Len(mined) + i - 1]]
           ids == [i \in 1 .. k + 1 |-> Len(mined) + i]
<1>1. /\ k \in Nat /\ from \in Nat /\ from > 0 /\ from <= Len(chain)
      /\ chain \in Seq(Nat) /\ mined \in Seq(Mined)
      /\ Len(mined) \in Nat /\ heads \in Seq(1 .. Len(mined))
  <2>1. /\ chain \in Seq(Nat) /\ mined \in Seq(Mined) /\ heads \in Seq(1 .. Len(mined))
        /\ Len(chain) >= StartHeight
    BY DEF TrackerIInv, TrackerTypeOK, Mined
  <2>2. /\ k \in Nat /\ k <= MaxReorg /\ MaxReorg \in Nat /\ MaxReorg < StartHeight
        /\ StartHeight \in Nat
    BY TrackerSizes
  <2>3. Len(chain) \in Nat /\ Len(mined) \in Nat
    BY <2>1
  <2>4. QED
    BY <2>1, <2>2, <2>3
<1>2. /\ mined' = mined \o new
      /\ chain' = SubSeq(chain, 1, from) \o ids
      /\ heads' = heads \o ids
      /\ quiet' = FALSE
      /\ UNCHANGED <<tracker, head, check, raced>>
  BY DEF Mine
<1>3. new \in Seq(Mined) /\ Len(new) = k + 1
  <2>1. \A i \in 1 .. k + 1 : /\ from + i \in Nat
                              /\ (IF i = 1 THEN chain[from] ELSE Len(mined) + i - 1) \in Nat
    <3>1. chain[from] \in Nat
      BY <1>1, ElementIsIn
    <3>2. QED
      BY <1>1, <3>1
  <2>2. new \in [1 .. k + 1 -> Mined]
    BY <2>1 DEF Mined
  <2>3. k + 1 \in Nat
    BY <1>1
  <2> HIDE DEF new
  <2>4. QED
    BY <2>2, <2>3, FunctionIsSequence
<1>4. ids \in Seq(Nat) /\ Len(ids) = k + 1 /\ ids \in Seq(1 .. Len(mined) + k + 1)
  <2>1. ids \in [1 .. k + 1 -> Nat] /\ ids \in [1 .. k + 1 -> 1 .. Len(mined) + k + 1]
    BY <1>1
  <2>2. QED
    BY <1>1, <2>1
<1> HIDE DEF new, ids
<1>5. /\ mined' \in Seq(Mined) /\ Len(mined') = Len(mined) + k + 1
      /\ \A i \in 1 .. Len(mined) : mined'[i] = mined[i]
  <2>1. mined \in Seq(Mined) /\ new \in Seq(Mined) /\ mined' = mined \o new
    BY <1>1, <1>2, <1>3
  <2>2. /\ mined' \in Seq(Mined) /\ Len(mined') = Len(mined) + Len(new)
        /\ \A i \in 1 .. Len(mined) : mined'[i] = mined[i]
    BY <2>1, Concatenation
  <2>3. QED
    BY <1>1, <1>3, <2>2
<1>6. chain' \in Seq(Nat) /\ Len(chain') = Len(chain) + 1
  <2> DEFINE kept == SubSeq(chain, 1, from)
  <2>1. kept \in Seq(Nat) /\ Len(kept) = from
    <3>1. chain \in Seq(Nat) /\ from \in 1 .. Len(chain)
      BY <1>1
    <3> HIDE DEF from
    <3>2. QED
      BY <3>1, PrefixIsSequence
  <2>2. chain' = kept \o ids /\ ids \in Seq(Nat)
    BY <1>2, <1>4
  <2> HIDE DEF kept
  <2>3. chain' \in Seq(Nat) /\ Len(chain') = Len(kept) + Len(ids)
    <3>1. kept \in Seq(Nat)
      BY <2>1
    <3>2. QED
      BY <2>2, <3>1, Concatenation
  <2>4. QED
    BY <1>1, <1>4, <2>1, <2>3
<1>7. heads' \in Seq(1 .. Len(mined'))
  <2>1. heads \in Seq(1 .. Len(mined) + k + 1)
    BY <1>1, SeqMonotonic
  <2>2. QED
    BY <1>2, <1>4, <1>5, <2>1, Concatenation
<1>8. head.at # "idle" => head.block \in 1 .. Len(mined) /\ head.block \in 1 .. Len(mined')
  BY <1>1, <1>5 DEF TrackerIInv, TrackerTypeOK
<1>9. TrackerTypeOK'
  <2>1. Len(chain') >= StartHeight
    BY <1>1, <1>6, TrackerSizes DEF TrackerIInv, TrackerTypeOK
  <2>2. QED
    BY <1>2, <1>5, <1>6, <1>7, <1>8, <2>1 DEF TrackerIInv, TrackerTypeOK, tracker, Mined
<1>10. MarkedIsNotWhole'
  BY <1>2, <1>5, <1>8 DEF TrackerIInv, MarkedIsNotWhole, Marked, tracker
<1>11. QED
  BY <1>2, <1>9, <1>10 DEF TrackerIInv, QuietIsUndisturbed, ComparedIsSettled

LEMMA HeadsAreRead ==
  ASSUME TrackerIInv, Lose \/ HeadArrives
  PROVE  TrackerIInv'
<1>1. CASE Lose
  BY <1>1 DEF Lose, TrackerIInv, TrackerTypeOK, QuietIsUndisturbed, ComparedIsSettled,
              MarkedIsNotWhole, Marked, tracker
<1>2. CASE HeadArrives
  <2> DEFINE b == Head(heads)
             before == mined[b].number - 1
  <2>1. /\ heads # <<>> /\ heads' = Tail(heads) /\ quiet' = FALSE /\ head.at = "idle"
        /\ head' = IF before \in DOMAIN blocks
                   THEN [at |-> "marking", block |-> b, parent |-> blocks[before]]
                   ELSE [at |-> "storing", block |-> b, parent |-> Nobody]
        /\ UNCHANGED <<mined, chain, tracker, check, raced>>
    BY <1>2 DEF HeadArrives
  <2>2. b \in 1 .. Len(mined) /\ Tail(heads) \in Seq(1 .. Len(mined))
    <3>1. heads \in Seq(1 .. Len(mined)) /\ heads # <<>>
      BY <2>1 DEF TrackerIInv, TrackerTypeOK
    <3>2. QED
      BY <3>1, HeadTailProperties
  <2>3. before \in DOMAIN blocks => blocks[before] \in Blocks
    BY DEF TrackerIInv, TrackerTypeOK
  <2> HIDE DEF b, before
  <2>4. /\ head' \in [at : {"idle", "marking", "storing"}, block : Nat, parent : Blocks]
        /\ head'.block = b
    <3>1. b \in Nat /\ Nobody \in Blocks
      BY <2>2 DEF Nobody, Blocks
    <3>2. QED
      BY <2>1, <2>3, <3>1
  <2>5. TrackerTypeOK'
    BY <2>1, <2>2, <2>4 DEF TrackerIInv, TrackerTypeOK, tracker
  <2>6. MarkedIsNotWhole'
    BY <2>1 DEF TrackerIInv, MarkedIsNotWhole, Marked, tracker
  <2>7. QED
    BY <2>1, <2>5, <2>6 DEF TrackerIInv, QuietIsUndisturbed, ComparedIsSettled
<1>3. QED
  BY <1>1, <1>2

LEMMA HeadIsMarked ==
  ASSUME TrackerIInv, Mark
  PROVE  TrackerIInv'
<1> DEFINE n == mined[head.block].number
<1>1. /\ head.at = "marking" /\ quiet' = FALSE
      /\ canonical' = IF Follows THEN Put(canonical, n, TRUE)
                      ELSE Put(Put(canonical, n, FALSE), n - 1, FALSE)
      /\ raced' = IF Follows /\ check.at = "replacing" /\ check.number = n
                  THEN raced \cup {n} ELSE raced \ {n}
      /\ head' = [head EXCEPT !.at = "storing"]
      /\ UNCHANGED <<environment, blocks, lastBlock, check>>
  BY DEF Mark
<1>2. n \in Nat /\ n - 1 \in Int
  BY <1>1, HeadHasNumber
<1>3. head'.at = "storing" /\ head'.block = head.block
  BY <1>1 DEF TrackerIInv, TrackerTypeOK
<1> HIDE DEF n
<1>4. canonical \in [DOMAIN canonical -> BOOLEAN] /\ DOMAIN canonical \subseteq Int
  BY DEF TrackerIInv, TrackerTypeOK
<1>5. /\ canonical' \in [DOMAIN canonical' -> BOOLEAN] /\ DOMAIN canonical' \subseteq Int
      /\ \A m : m # n /\ m \in DOMAIN canonical' /\ canonical'[m] => Marked(m)
      /\ ~Follows => ~(n \in DOMAIN canonical' /\ canonical'[n])
  <2>1. CASE Follows
    <3>1. /\ DOMAIN canonical' = DOMAIN canonical \cup {n}
          /\ canonical' \in [DOMAIN canonical' -> BOOLEAN]
          /\ \A m \in DOMAIN canonical : m # n => canonical'[m] = canonical[m]
      <4>1. canonical' = Put(canonical, n, TRUE)
        BY <1>1, <2>1
      <4>2. QED
        BY <1>4, <4>1 DEF Put
    <3>2. QED
      BY <1>2, <1>4, <2>1, <3>1 DEF Marked
  <2>2. CASE ~Follows
    <3> DEFINE first == Put(canonical, n, FALSE)
    <3>1. /\ DOMAIN first = DOMAIN canonical \cup {n} /\ first \in [DOMAIN first -> BOOLEAN]
          /\ ~first[n] /\ \A m \in DOMAIN canonical : m # n => first[m] = canonical[m]
      <4>1. first \in [DOMAIN canonical \cup {n} -> BOOLEAN] /\ first[n] = FALSE
        BY <1>4 DEF Put
      <4>2. QED
        BY <1>4, <4>1 DEF Put
    <3> HIDE DEF first
    <3>2. canonical' = Put(first, n - 1, FALSE)
      BY <1>1, <2>2 DEF first
    <3>3. /\ DOMAIN canonical' = DOMAIN first \cup {n - 1}
          /\ canonical' \in [DOMAIN canonical' -> BOOLEAN]
          /\ ~canonical'[n - 1]
          /\ \A m \in DOMAIN first : m # n - 1 => canonical'[m] = first[m]
      BY <3>1, <3>2 DEF Put
    <3>4. QED
      BY <1>2, <1>4, <2>2, <3>1, <3>3 DEF Marked
  <2>3. QED
    BY <2>1, <2>2
<1>6. TrackerTypeOK'
  <2>1. /\ head' \in [at : {"idle", "marking", "storing"}, block : Nat, parent : Blocks]
        /\ head'.block \in 1 .. Len(mined)
    BY <1>1, <1>3 DEF TrackerIInv, TrackerTypeOK
  <2>2. QED
    BY <1>1, <1>3, <1>5, <2>1 DEF TrackerIInv, TrackerTypeOK, environment
<1>7. MarkedIsNotWhole'
  <2>1. mined'[head'.block].number = n
    BY <1>1, <1>3 DEF environment, n
  <2>2. \A m \in DOMAIN blocks : m # n /\ blocks[m].whole /\ Marked(m)' => m \in raced'
    BY <1>1, <1>5 DEF TrackerIInv, MarkedIsNotWhole, Marked
  <2>3. check.at = "replacing" /\ Marked(check.number)' => check.number \in raced'
    <3>1. CASE check.number = n
      BY <1>1, <1>5, <3>1 DEF Marked
    <3>2. CASE check.number # n
      BY <1>1, <1>5, <3>2 DEF TrackerIInv, MarkedIsNotWhole, Marked
    <3>3. QED
      BY <3>1, <3>2
  <2>4. QED
    BY <1>1, <1>3, <2>1, <2>2, <2>3 DEF MarkedIsNotWhole
<1>8. QED
  BY <1>1, <1>6, <1>7 DEF TrackerIInv, QuietIsUndisturbed, ComparedIsSettled

LEMMA HeadIsStored ==
  ASSUME TrackerIInv, Store
  PROVE  TrackerIInv'
<1> DEFINE n == mined[head.block].number
           stored == [block |-> head.block, whole |-> FALSE]
<1>1. /\ head.at = "storing" /\ quiet' = FALSE
      /\ blocks' = Put(blocks, n, stored) /\ lastBlock' = n /\ head' = NoHead
      /\ UNCHANGED <<environment, canonical, check, raced>>
  BY DEF Store
<1>2. n \in Nat /\ stored \in Blocks /\ ~stored.whole
  BY <1>1, HeadHasNumber DEF TrackerIInv, TrackerTypeOK, Blocks
<1>3. blocks \in [DOMAIN blocks -> Blocks] /\ DOMAIN blocks \subseteq Int
  BY DEF TrackerIInv, TrackerTypeOK
<1> HIDE DEF stored
<1>4. /\ DOMAIN blocks' = DOMAIN blocks \cup {n} /\ blocks' \in [DOMAIN blocks' -> Blocks]
      /\ blocks'[n] = stored
      /\ \A m \in DOMAIN blocks : m # n => blocks'[m] = blocks[m]
  <2>1. blocks' = Put(blocks, n, stored)
    BY <1>1
  <2>2. QED
    BY <1>2, <1>3, <2>1 DEF Put
<1>5. /\ head' \in [at : {"idle", "marking", "storing"}, block : Nat, parent : Blocks]
      /\ head'.at = "idle"
  BY <1>1 DEF NoHead, Nobody, Blocks
<1>6. TrackerTypeOK'
  <2>1. DOMAIN blocks' \subseteq Int
    BY <1>2, <1>3, <1>4
  <2>2. QED
    BY <1>1, <1>2, <1>4, <1>5, <2>1 DEF TrackerIInv, TrackerTypeOK, environment
<1>7. MarkedIsNotWhole'
  <2>1. ASSUME NEW m \in DOMAIN blocks', blocks'[m].whole, Marked(m)'
        PROVE  m \in raced
    <3>1. m # n /\ m \in DOMAIN blocks /\ blocks[m].whole
      BY <1>2, <1>4, <2>1
    <3>2. Marked(m)
      BY <1>1, <2>1 DEF Marked
    <3>3. QED
      BY <1>1, <3>1, <3>2 DEF TrackerIInv, MarkedIsNotWhole
  <2>2. QED
    BY <1>1, <2>1 DEF TrackerIInv, MarkedIsNotWhole, Marked
<1>8. QED
  BY <1>1, <1>6, <1>7 DEF TrackerIInv, QuietIsUndisturbed, ComparedIsSettled

---------------------------------------------------------------------------
(* detectReorgs *)

Checked == [at : {"idle", "fetching", "comparing", "unmarking", "replacing"},
            number : Int, latest : Nat, header : Nat]

\* A step of the check that leaves the maps alone.
LEMMA CheckGoesOn ==
  ASSUME TrackerIInv, UNCHANGED <<environment, tracker, head, raced>>,
         check' \in Checked,
         check'.at # "replacing", quiet' \in BOOLEAN,
         QuietIsUndisturbed', ComparedIsSettled'
  PROVE  TrackerIInv'
<1>1. TrackerTypeOK'
  BY DEF TrackerIInv, TrackerTypeOK, Checked, environment, tracker
<1>2. MarkedIsNotWhole'
  BY DEF TrackerIInv, MarkedIsNotWhole, Marked, environment, tracker
<1>3. QED
  BY <1>1, <1>2 DEF TrackerIInv

LEMMA AdvanceIsChecked ==
  ASSUME TrackerIInv
  PROVE  /\ check \in Checked
         /\ Advance \in Checked /\ Advance.at = "fetching"
         /\ Advance.number = check.number + 1 /\ Advance.latest = check.latest
<1>1. check \in Checked
  BY DEF TrackerIInv, TrackerTypeOK, Checked
<1>2. Advance = [check EXCEPT !.at = "fetching", !.number = check.number + 1, !.header = 0]
  BY DEF Advance
<1>3. check.number + 1 \in Int
  BY <1>1 DEF Checked
<1>4. QED
  BY <1>1, <1>2, <1>3 DEF Checked

LEMMA CheckIsBegun ==
  ASSUME TrackerIInv, CheckBegins
  PROVE  TrackerIInv'
<1> DEFINE begun == [at |-> "fetching", number |-> Minus(lastBlock, Depth),
                     latest |-> lastBlock, header |-> 0]
           calm == head = NoHead
<1>1. /\ check' = begun /\ quiet' = calm /\ calm \in BOOLEAN
      /\ UNCHANGED <<environment, tracker, head, raced>>
  BY DEF CheckBegins
<1>2. Minus(lastBlock, Depth) \in Int /\ lastBlock \in Nat
  BY MinusIsInt, TrackerSizes DEF TrackerIInv, TrackerTypeOK
<1>3. begun \in Checked /\ begun.at = "fetching" /\ begun.latest = lastBlock
      /\ begun.number = Minus(lastBlock, Depth)
  BY <1>2 DEF Checked
<1> HIDE DEF begun
<1>4. QuietIsUndisturbed'
  BY <1>1, <1>3 DEF QuietIsUndisturbed, tracker
<1>5. ComparedIsSettled'
  <2>1. \A n : n \notin Minus(lastBlock, Depth) .. begun.number - 1
    BY <1>2, <1>3
  <2>2. QED
    BY <1>1, <1>3, <2>1 DEF ComparedIsSettled, tracker
<1> HIDE DEF calm
<1>6. QED
  BY <1>1, <1>3, <1>4, <1>5, CheckGoesOn

LEMMA HeaderIsFetched ==
  ASSUME TrackerIInv, Fetch \/ FetchFails
  PROVE  TrackerIInv'
<1>1. CASE Fetch
  <2> DEFINE fetched == [check EXCEPT !.at = "comparing", !.header = chain[check.number]]
  <2>1. /\ check' = fetched /\ check.at = "fetching" /\ check.number <= check.latest
        /\ check.number \in DOMAIN chain
        /\ UNCHANGED <<environment, tracker, head, quiet, raced>>
    BY <1>1 DEF Fetch
  <2>2. chain[check.number] \in Nat
    <3>1. chain \in Seq(Nat)
      BY DEF TrackerIInv, TrackerTypeOK
    <3>2. check.number \in 1 .. Len(chain)
      BY <2>1, <3>1
    <3>3. QED
      BY <3>1, <3>2, ElementIsIn
  <2>3. /\ fetched \in Checked /\ fetched.at = "comparing"
        /\ fetched.header = chain[check.number]
        /\ fetched.number = check.number /\ fetched.latest = check.latest
    BY <2>2, AdvanceIsChecked DEF Checked
  <2> HIDE DEF fetched
  <2>4. QuietIsUndisturbed'
    BY <2>1, <2>3 DEF TrackerIInv, QuietIsUndisturbed, tracker
  <2>5. ComparedIsSettled'
    BY <2>1, <2>3 DEF TrackerIInv, ComparedIsSettled, tracker, environment
  <2>6. quiet' \in BOOLEAN
    BY <2>1 DEF TrackerIInv, TrackerTypeOK
  <2>7. QED
    BY <2>1, <2>3, <2>4, <2>5, <2>6, CheckGoesOn
<1>2. CASE FetchFails
  <2>1. check' = Advance /\ ~quiet' /\ quiet' \in BOOLEAN
        /\ UNCHANGED <<environment, tracker, head, raced>>
    BY <1>2 DEF FetchFails
  <2>2. QuietIsUndisturbed' /\ ComparedIsSettled'
    BY <2>1 DEF QuietIsUndisturbed, ComparedIsSettled
  <2>3. QED
    BY <2>1, <2>2, AdvanceIsChecked, CheckGoesOn
<1>3. QED
  BY <1>1, <1>2

LEMMA HeaderIsCompared ==
  ASSUME TrackerIInv, Compare
  PROVE  TrackerIInv'
<1>1. /\ check.at = "comparing"
      /\ UNCHANGED <<environment, tracker, head, quiet, raced>>
      /\ quiet' \in BOOLEAN
  BY DEF Compare, TrackerIInv, TrackerTypeOK
<1>2. CASE check.number \in DOMAIN blocks
             /\ blocks[check.number] # [block |-> check.header, whole |-> TRUE]
  <2> DEFINE unmarking == [check EXCEPT !.at = "unmarking"]
  <2>1. check' = unmarking
    BY <1>2 DEF Compare
  <2>2. /\ unmarking \in Checked /\ unmarking.at = "unmarking"
        /\ unmarking.header = check.header
        /\ unmarking.number = check.number /\ unmarking.latest = check.latest
    BY AdvanceIsChecked DEF Checked
  <2> HIDE DEF unmarking
  <2>3. QuietIsUndisturbed' /\ ComparedIsSettled'
    BY <1>1, <2>1, <2>2 DEF TrackerIInv, QuietIsUndisturbed, ComparedIsSettled, tracker, environment
  <2>4. QED
    BY <1>1, <2>1, <2>2, <2>3, CheckGoesOn
<1>3. CASE ~(check.number \in DOMAIN blocks
               /\ blocks[check.number] # [block |-> check.header, whole |-> TRUE])
  <2>1. check' = Advance
    BY <1>3 DEF Compare
  <2>2. QuietIsUndisturbed'
    BY <1>1, <2>1, AdvanceIsChecked DEF TrackerIInv, QuietIsUndisturbed, tracker
  <2>3. ComparedIsSettled'
    <3>1. ASSUME quiet, NEW n \in DOMAIN blocks, n \in Minus(lastBlock, Depth) .. check.number
          PROVE  blocks[n] = [block |-> chain[n], whole |-> TRUE]
      <4>1. CASE n = check.number
        BY <1>1, <1>3, <3>1, <4>1 DEF TrackerIInv, ComparedIsSettled
      <4>2. CASE n # check.number
        <5>1. n \in Minus(lastBlock, Depth) .. check.number - 1
          BY <3>1, <4>2, AdvanceIsChecked DEF Checked
        <5>2. QED
          BY <1>1, <3>1, <5>1 DEF TrackerIInv, ComparedIsSettled
      <4>3. QED
        BY <4>1, <4>2
    <3>2. Advance.number - 1 = check.number
      BY AdvanceIsChecked DEF Checked
    <3>3. QED
      BY <1>1, <2>1, <3>1, <3>2, AdvanceIsChecked
         DEF ComparedIsSettled, tracker, environment
  <2>4. QED
    BY <1>1, <2>1, <2>2, <2>3, AdvanceIsChecked, CheckGoesOn
<1>4. QED
  BY <1>2, <1>3

LEMMA MarkIsTaken ==
  ASSUME TrackerIInv, Unmark
  PROVE  TrackerIInv'
<1> DEFINE n == check.number
           replacing == [check EXCEPT !.at = "replacing"]
<1>1. /\ check.at = "unmarking" /\ check' = replacing
      /\ canonical' = Put(canonical, n, FALSE) /\ raced' = raced \ {n}
      /\ UNCHANGED <<environment, blocks, lastBlock, head, quiet>>
  BY DEF Unmark
<1>2. /\ replacing \in Checked /\ replacing.at = "replacing"
      /\ replacing.header = check.header
      /\ replacing.number = n /\ replacing.latest = check.latest /\ n \in Int
  BY AdvanceIsChecked DEF Checked
<1> HIDE DEF n, replacing
<1>3. canonical \in [DOMAIN canonical -> BOOLEAN] /\ DOMAIN canonical \subseteq Int
  BY DEF TrackerIInv, TrackerTypeOK
<1>4. /\ canonical' \in [DOMAIN canonical' -> BOOLEAN]
      /\ DOMAIN canonical' = DOMAIN canonical \cup {n} /\ ~canonical'[n]
      /\ \A m \in DOMAIN canonical : m # n => canonical'[m] = canonical[m]
  <2>1. canonical' = Put(canonical, n, FALSE)
    BY <1>1
  <2>2. QED
    BY <1>3, <2>1 DEF Put
<1>5. TrackerTypeOK'
  BY <1>1, <1>2, <1>3, <1>4 DEF TrackerIInv, TrackerTypeOK, Checked, environment
<1>6. QuietIsUndisturbed' /\ ComparedIsSettled'
  BY <1>1, <1>2 DEF TrackerIInv, QuietIsUndisturbed, ComparedIsSettled, environment, n
<1>7. MarkedIsNotWhole'
  <2>1. \A m : Marked(m)' => m # n /\ Marked(m)
    BY <1>4 DEF Marked
  <2>2. QED
    BY <1>1, <1>2, <2>1 DEF TrackerIInv, MarkedIsNotWhole, environment
<1>8. QED
  BY <1>5, <1>6, <1>7 DEF TrackerIInv

LEMMA HeaderIsReplaced ==
  ASSUME TrackerIInv, Replace
  PROVE  TrackerIInv'
<1> DEFINE n == check.number
           header == [block |-> check.header, whole |-> TRUE]
<1>1. /\ check.at = "replacing" /\ check' = Advance
      /\ blocks' = Put(blocks, n, header)
      /\ UNCHANGED <<environment, canonical, lastBlock, head, quiet, raced>>
  BY DEF Replace
<1>2. n \in Int /\ header \in Blocks /\ header.block = check.header
  BY AdvanceIsChecked DEF Checked, Blocks
<1> HIDE DEF n
<1>3. blocks \in [DOMAIN blocks -> Blocks] /\ DOMAIN blocks \subseteq Int
  BY DEF TrackerIInv, TrackerTypeOK
<1>4. /\ blocks' \in [DOMAIN blocks' -> Blocks]
      /\ DOMAIN blocks' = DOMAIN blocks \cup {n} /\ blocks'[n] = header
      /\ \A m \in DOMAIN blocks : m # n => blocks'[m] = blocks[m]
  <2> HIDE DEF header
  <2>1. blocks' = Put(blocks, n, header)
    BY <1>1
  <2>2. QED
    BY <1>2, <1>3, <2>1 DEF Put
<1>5. TrackerTypeOK'
  <2>1. DOMAIN blocks' \subseteq Int
    BY <1>2, <1>3, <1>4
  <2>2. QED
    BY <1>1, <1>4, <2>1, AdvanceIsChecked DEF TrackerIInv, TrackerTypeOK, Checked, environment
<1>6. QuietIsUndisturbed'
  BY <1>1, AdvanceIsChecked DEF TrackerIInv, QuietIsUndisturbed, environment
<1>7. ComparedIsSettled'
  <2>1. ASSUME quiet, NEW m \in DOMAIN blocks', m \in Minus(lastBlock, Depth) .. n
        PROVE  blocks'[m] = [block |-> chain[m], whole |-> TRUE]
    <3>1. CASE m = n
      BY <1>1, <1>4, <2>1, <3>1 DEF TrackerIInv, ComparedIsSettled, n
    <3>2. CASE m # n
      <4>1. m \in Minus(lastBlock, Depth) .. n - 1 /\ m \in DOMAIN blocks
        BY <1>2, <1>4, <2>1, <3>2
      <4>2. QED
        BY <1>1, <1>4, <2>1, <3>2, <4>1 DEF TrackerIInv, ComparedIsSettled, n
    <3>3. QED
      BY <3>1, <3>2
  <2>2. Advance.number - 1 = n
    BY AdvanceIsChecked DEF Checked, n
  <2>3. QED
    BY <1>1, <2>1, <2>2, AdvanceIsChecked DEF ComparedIsSettled, environment
<1>8. MarkedIsNotWhole'
  <2>1. \A m : Marked(m)' => Marked(m)
    BY <1>1 DEF Marked
  <2>2. Marked(n) => n \in raced
    BY <1>1 DEF TrackerIInv, MarkedIsNotWhole, n
  <2>3. QED
    BY <1>1, <1>4, <2>1, <2>2, AdvanceIsChecked DEF TrackerIInv, MarkedIsNotWhole, environment
<1>9. QED
  BY <1>5, <1>6, <1>7, <1>8 DEF TrackerIInv

LEMMA OldBlocksGo ==
  ASSUME TrackerIInv, cleanupOldBlocks
  PROVE  TrackerIInv'
<1> DEFINE kept == {n \in DOMAIN blocks : n >= Minus(lastBlock, 2 * Depth)}
           marks == DOMAIN canonical \ (DOMAIN blocks \ kept)
<1>1. /\ blocks' = Restrict(blocks, kept) /\ canonical' = Restrict(canonical, marks)
      /\ check' = NoCheck
      /\ UNCHANGED <<environment, lastBlock, head, quiet, raced>>
  BY DEF cleanupOldBlocks
<1>2. /\ kept \subseteq DOMAIN blocks /\ marks \subseteq DOMAIN canonical
      /\ blocks \in [DOMAIN blocks -> Blocks] /\ DOMAIN blocks \subseteq Int
      /\ canonical \in [DOMAIN canonical -> BOOLEAN] /\ DOMAIN canonical \subseteq Int
  BY DEF TrackerIInv, TrackerTypeOK
<1> HIDE DEF kept, marks
<1>3. /\ DOMAIN blocks' = kept /\ blocks' \in [kept -> Blocks]
      /\ \A m \in kept : blocks'[m] = blocks[m]
      /\ DOMAIN canonical' = marks /\ canonical' \in [marks -> BOOLEAN]
      /\ \A m \in marks : canonical'[m] = canonical[m]
  BY <1>1, <1>2 DEF Restrict
<1>4. check' \in Checked /\ check'.at = "idle"
  BY <1>1 DEF NoCheck, Checked
<1>5. TrackerTypeOK'
  BY <1>1, <1>2, <1>3, <1>4 DEF TrackerIInv, TrackerTypeOK, Checked, environment
<1>6. MarkedIsNotWhole'
  <2>1. \A m : Marked(m)' => Marked(m)
    BY <1>2, <1>3 DEF Marked
  <2>2. QED
    BY <1>1, <1>2, <1>3, <1>4, <2>1 DEF TrackerIInv, MarkedIsNotWhole, environment
<1>7. QED
  BY <1>4, <1>5, <1>6 DEF TrackerIInv, QuietIsUndisturbed, ComparedIsSettled

LEMMA TrackerNextIInv ==
  ASSUME TrackerIInv, TrackerNext \/ UNCHANGED trackerVars
  PROVE  TrackerIInv'
<1>1. CASE UNCHANGED trackerVars
  BY <1>1 DEF trackerVars, environment, tracker, TrackerIInv, TrackerTypeOK, QuietIsUndisturbed,
              ComparedIsSettled, MarkedIsNotWhole, Marked
<1>2. QED
  BY <1>1, ChainGrows, HeadsAreRead, HeadIsMarked, HeadIsStored, CheckIsBegun, HeaderIsFetched,
     HeaderIsCompared, MarkIsTaken, HeaderIsReplaced, OldBlocksGo DEF TrackerNext

---------------------------------------------------------------------------
(* The monitors *)

MonitorIInv == MonitorTypeOK /\ PendingIsYoung /\ IsFiniteSet(DOMAIN pendingTxs)

LoopSteps == {"none", "checking", "dialling", "subscribing", "reading messages", "reading",
          "disconnecting", "dropping", "waiting", "fetching metadata", "asking", "exited"}

Dials == [made : 0 .. Cardinality(Connections), failed : Nat, lost : Nat]

LEMMA ConnectionCount == Cardinality(Connections) = MaxLosses + 2
<1>1. 1 \in Int /\ MaxLosses + 2 \in Nat
  BY MonitorSizes
<1>2. QED
  BY <1>1, FS_Interval DEF Connections

LEMMA MonitorInitIInv == BaseInit => MonitorIInv
<1> SUFFICES ASSUME BaseInit PROVE MonitorIInv
  OBVIOUS
<1>1. MaxLosses \in Nat /\ EventCapacity \in Nat /\ CleanupPeriod \in Nat /\ MaxFrontruns \in Nat
  BY MonitorSizes
<1>2. MonitorTypeOK
  <2>1. dials \in Dials
    BY ConnectionCount, <1>1 DEF BaseInit, Dials
  <2>2. loop \in [at : LoopSteps, reads : Connections \cup {0}]
    BY DEF BaseInit, LoopSteps
  <2>3. stats \in [total : Nat, processed : Nat, refused : Nat, dropped : Nat]
    BY DEF BaseInit
  <2>4. pendingTxs \in [DOMAIN pendingTxs -> Nat] /\ DOMAIN pendingTxs = {}
    BY DEF BaseInit
  <2>5. queue \in 0 .. EventCapacity /\ frontruns \in 0 .. MaxFrontruns /\ elapsed \in 0 .. CleanupPeriod
    BY <1>1 DEF BaseInit
  <2>6. {running, cancelled, closed, panicked} \subseteq BOOLEAN
    BY DEF BaseInit
  <2>7. QED
    BY <2>1, <2>2, <2>3, <2>4, <2>5, <2>6 DEF BaseInit, MonitorTypeOK, SocketTypes,
         DeliveryTypes, MempoolTypes, Dials, LoopSteps
<1>3. QED
  BY <1>2, FS_EmptySet DEF BaseInit, MonitorIInv, PendingIsYoung

\* The steps that leave the pending transactions and the delivery of events alone.
LEMMA SocketSteps ==
  ASSUME MonitorIInv,
         \/ \E fails \in BOOLEAN : Start(fails)
         \/ StopCancels \/ StopNext \/ LoopChecks \/ connect \/ connectFails \/ subscribe
         \/ readMessages \/ ReadEnds \/ disconnect \/ LoopTicks \/ LogArrives
         \/ \E c \in Connections : ConnectionLost(c)
  PROVE  MonitorIInv'
<1>1. UNCHANGED <<pendingTxs, asking, frontruns, elapsed, queue, stats, source>>
  BY DEF Start, StopCancels, StopNext, StopHangsUp, StopCloses, LoopChecks, connect, connectFails,
         subscribe, readMessages, ReadEnds, disconnect, LoopTicks, LogArrives, ConnectionLost,
         Connected, mempool, delivery
<1>2. panicked' = panicked
  BY DEF Start, StopCancels, StopNext, StopHangsUp, StopCloses, LoopChecks, connect, connectFails,
         subscribe, readMessages, ReadEnds, disconnect, LoopTicks, LogArrives, ConnectionLost
<1>3. PendingIsYoung'
  BY <1>1 DEF MonitorIInv, PendingIsYoung
<1>4. \A step \in LoopSteps : Goto(step) =>
         loop' \in [at : LoopSteps, reads : Connections \cup {0}]
  BY DEF Goto, MonitorIInv, MonitorTypeOK, SocketTypes,
         DeliveryTypes, MempoolTypes, LoopSteps
<1>5. MonitorTypeOK'
  <2>0. /\ dials \in Dials /\ dials.made \in 0 .. MaxLosses + 2 /\ dials.failed \in Nat
        /\ dials.lost \in Nat /\ MaxLosses \in Nat
    BY ConnectionCount, MonitorSizes DEF MonitorIInv, MonitorTypeOK, SocketTypes,
         DeliveryTypes, MempoolTypes, Dials
  <2>1. ASSUME NEW fails \in BOOLEAN, Start(fails)
        PROVE  MonitorTypeOK'
    BY <1>1, <1>2, <2>1 DEF Start, MonitorIInv, MonitorTypeOK, SocketTypes,
         DeliveryTypes, MempoolTypes, socket
  <2>2. CASE StopCancels \/ StopNext
    BY <1>1, <1>2, <2>2 DEF StopCancels, StopNext, StopHangsUp, StopCloses, HangUp, MonitorIInv,
                            MonitorTypeOK, SocketTypes,
         DeliveryTypes, MempoolTypes, socket, delivery
  <2>3. CASE LoopChecks \/ subscribe \/ LoopTicks \/ LogArrives
    BY <1>1, <1>2, <1>4, <2>3
       DEF LoopChecks, subscribe, LoopTicks, LogArrives, LoopSteps, MonitorIInv,
                            MonitorTypeOK, SocketTypes,
         DeliveryTypes, MempoolTypes, socket, delivery, lifecycle
  <2>4. CASE readMessages \/ ReadEnds
    <3>1. loop' \in [at : LoopSteps, reads : Connections \cup {0}]
      <4>1. loop \in [at : LoopSteps, reads : Connections \cup {0}] /\ conn \in Connections \cup {0}
        BY DEF MonitorIInv, MonitorTypeOK, SocketTypes,
         DeliveryTypes, MempoolTypes, LoopSteps
      <4>2. CASE readMessages
        BY <4>1, <4>2 DEF readMessages, LoopSteps
      <4>3. CASE ReadEnds
        BY <4>3 DEF ReadEnds, LoopSteps
      <4>4. QED
        BY <2>4, <4>2, <4>3
    <3>2. UNCHANGED <<lifecycle, socket, delivery>>
      BY <2>4 DEF readMessages, ReadEnds
    <3>3. QED
      BY <1>1, <1>2, <3>1, <3>2 DEF MonitorIInv, MonitorTypeOK, SocketTypes,
         DeliveryTypes, MempoolTypes, LoopSteps, socket, delivery, lifecycle
  <2>5. CASE disconnect
    BY <1>1, <1>2, <1>4, <2>5
       DEF disconnect, HangUp, LoopSteps, MonitorIInv, MonitorTypeOK, SocketTypes,
         DeliveryTypes, MempoolTypes, delivery,
                            lifecycle
  <2>6. CASE connect
    <3>1. dials.made + 1 \in Connections /\ dials.made + 1 \in 0 .. Cardinality(Connections)
      BY <2>0, <2>6, ConnectionCount DEF connect, Connections
    <3>2. dials' \in Dials
      BY <2>0, <2>6, <3>1 DEF connect, Dials
    <3>3. QED
      BY <1>1, <1>2, <1>4, <2>6, <3>1, <3>2
         DEF connect, LoopSteps, Dials, MonitorIInv, MonitorTypeOK, SocketTypes,
         DeliveryTypes, MempoolTypes,
         delivery, lifecycle
  <2>7. CASE connectFails
    <3>1. dials' \in Dials
      BY <2>0, <2>7 DEF connectFails, Dials
    <3>2. QED
      BY <1>1, <1>2, <1>4, <2>7, <3>1
         DEF connectFails, LoopSteps, Dials, MonitorIInv, MonitorTypeOK, SocketTypes,
         DeliveryTypes, MempoolTypes,
         delivery, lifecycle
  <2>8. ASSUME NEW c \in Connections, ConnectionLost(c)
        PROVE  MonitorTypeOK'
    <3>1. dials' \in Dials
      BY <2>0, <2>8 DEF ConnectionLost, Dials
    <3>2. QED
      <4>1. UNCHANGED <<lifecycle, conn, loop, delivery>> /\ open' \subseteq open
        BY <2>8 DEF ConnectionLost
      <4>2. QED
        <5>1. open' \subseteq Connections
          BY <4>1 DEF MonitorIInv, MonitorTypeOK, SocketTypes,
         DeliveryTypes, MempoolTypes
        <5>2. UNCHANGED <<running, cancelled, start, stop, closed, conn, loop, queue, drain, stats>>
          BY <4>1 DEF delivery, lifecycle
        <5>3. QED
          <6>1. SocketTypes'
            BY <3>1, <5>1, <5>2 DEF Dials, MonitorIInv, MonitorTypeOK, SocketTypes
          <6>2. DeliveryTypes' /\ MempoolTypes'
            BY <1>1, <1>2, <5>2 DEF MonitorIInv, MonitorTypeOK, DeliveryTypes, MempoolTypes
          <6>3. QED
            BY <1>1, <6>1, <6>2 DEF MonitorIInv, MonitorTypeOK
  <2>9. QED
    BY <2>1, <2>2, <2>3, <2>4, <2>5, <2>6, <2>7, <2>8
<1>6. QED
  BY <1>1, <1>3, <1>5 DEF MonitorIInv

\* The delivery of events.
LEMMA DeliverySteps ==
  ASSUME MonitorIInv,
         SendEvent \/ Receive \/ \E outcome \in {"processed", "refused"} : Handled(outcome)
  PROVE  MonitorIInv'
<1>1. UNCHANGED <<pendingTxs, asking, frontruns, elapsed, lifecycle, socket, source>>
  BY DEF SendEvent, Receive, Handled, Connected, mempool
<1>2. PendingIsYoung'
  BY <1>1 DEF MonitorIInv, PendingIsYoung
<1> DEFINE Stats == [total : Nat, processed : Nat, refused : Nat, dropped : Nat]
<1>3. /\ stats \in Stats /\ stats.total \in Nat /\ stats.processed \in Nat
      /\ stats.refused \in Nat /\ stats.dropped \in Nat /\ queue \in 0 .. EventCapacity
      /\ EventCapacity \in Nat
  BY MonitorSizes DEF MonitorIInv, MonitorTypeOK, SocketTypes,
         DeliveryTypes, MempoolTypes
<1>4. stats' \in Stats /\ queue' \in 0 .. EventCapacity
  <2>1. CASE SendEvent
    <3> DEFINE total == stats.total + 1
               dropped == stats.dropped + 1
    <3>1. total \in Nat /\ dropped \in Nat
      BY <1>3
    <3>2. \/ /\ queue < EventCapacity /\ queue' = queue + 1
             /\ stats' = [stats EXCEPT !.total = total]
          \/ /\ queue' = queue
             /\ stats' = [stats EXCEPT !.total = total, !.dropped = dropped]
      BY <2>1 DEF SendEvent
    <3> HIDE DEF total, dropped
    <3>3. queue' \in 0 .. EventCapacity
      BY <1>3, <3>2
    <3>4. stats' \in Stats
      BY <1>3, <3>1, <3>2
    <3>5. QED
      BY <3>3, <3>4
  <2>2. CASE Receive
    BY <1>3, <2>2 DEF Receive
  <2>3. ASSUME NEW outcome \in {"processed", "refused"}, Handled(outcome)
        PROVE  stats' \in Stats /\ queue' \in 0 .. EventCapacity
    BY <1>3, <2>3 DEF Handled
  <2>4. QED
    BY <2>1, <2>2, <2>3
<1>5. drain' \in {"none", "waiting", "handling", "exited"}
  BY DEF SendEvent, Receive, Handled, MonitorIInv, MonitorTypeOK, SocketTypes,
         DeliveryTypes, MempoolTypes
<1>6. loop' \in [at : LoopSteps, reads : Connections \cup {0}]
  BY DEF SendEvent, Receive, Handled, Goto, LoopSteps, MonitorIInv, MonitorTypeOK, SocketTypes,
         DeliveryTypes, MempoolTypes
<1>7. panicked' \in BOOLEAN
  BY DEF SendEvent, Receive, Handled, MonitorIInv, MonitorTypeOK, SocketTypes,
         DeliveryTypes, MempoolTypes
<1>8. MonitorTypeOK'
  BY <1>1, <1>4, <1>5, <1>6, <1>7 DEF MonitorIInv, MonitorTypeOK, SocketTypes,
         DeliveryTypes, MempoolTypes, LoopSteps, lifecycle, socket
<1>9. QED
  BY <1>1, <1>2, <1>8 DEF MonitorIInv

\* The pending transactions.
LEMMA PendingSteps ==
  ASSUME MonitorIInv,
         \/ \E h \in Hashes : HashArrives(h)
         \/ \E pending \in BOOLEAN : processPendingTransaction(pending)
         \/ Tick \/ cleanupOldPendingTxs
  PROVE  MonitorIInv'
<1>1. /\ UNCHANGED <<source, lifecycle, socket, queue, drain, stats>>
      /\ panicked' = panicked
  BY DEF HashArrives, processPendingTransaction, Tick, cleanupOldPendingTxs, Connected, delivery
<1>2. loop' \in [at : LoopSteps, reads : Connections \cup {0}]
  BY DEF HashArrives, processPendingTransaction, Tick, cleanupOldPendingTxs, Goto, LoopSteps,
         MonitorIInv, MonitorTypeOK, SocketTypes,
         DeliveryTypes, MempoolTypes
<1>3. asking' \in Hashes \cup {NoHash}
  BY DEF HashArrives, processPendingTransaction, Tick, cleanupOldPendingTxs, MonitorIInv,
         MonitorTypeOK, SocketTypes,
         DeliveryTypes, MempoolTypes
<1>4. /\ DOMAIN pendingTxs \subseteq Uniswap /\ pendingTxs \in [DOMAIN pendingTxs -> Nat]
      /\ elapsed \in 0 .. CleanupPeriod /\ CleanupPeriod \in Nat /\ TxLifetime \in Nat
      /\ MaxFrontruns \in Nat /\ frontruns \in 0 .. MaxFrontruns
      /\ IsFiniteSet(DOMAIN pendingTxs)
      /\ \A h \in DOMAIN pendingTxs : pendingTxs[h] <= TxLifetime + elapsed
  BY MonitorSizes DEF MonitorIInv, MonitorTypeOK, SocketTypes,
         DeliveryTypes, MempoolTypes, PendingIsYoung
<1> DEFINE Good == /\ DOMAIN pendingTxs' \subseteq Uniswap
                   /\ pendingTxs' \in [DOMAIN pendingTxs' -> Nat]
                   /\ frontruns' \in 0 .. MaxFrontruns /\ elapsed' \in 0 .. CleanupPeriod
                   /\ IsFiniteSet(DOMAIN pendingTxs')
                   /\ \A h \in DOMAIN pendingTxs' : pendingTxs'[h] <= TxLifetime + elapsed'
<1>5. ASSUME NEW h \in Hashes, HashArrives(h)
      PROVE  Good
  BY <1>4, <1>5 DEF HashArrives
<1>6. ASSUME NEW pending \in BOOLEAN, processPendingTransaction(pending)
      PROVE  Good
  <2>1. elapsed' = elapsed
    BY <1>6 DEF processPendingTransaction
  <2>2. CASE pending /\ asking \in Uniswap
    <3> DEFINE outbid == Cardinality(Outbid(asking, pendingTxs))
               counted == frontruns + outbid
    <3>1. outbid \in Nat
      <4>1. Outbid(asking, pendingTxs) \subseteq DOMAIN pendingTxs
        BY DEF Outbid
      <4>2. QED
        BY <1>4, <4>1, FS_Subset, FS_CardinalityType
    <3>2. /\ pendingTxs' = Put(pendingTxs, asking, 0)
          /\ frontruns' = IF counted > MaxFrontruns THEN MaxFrontruns ELSE counted
      BY <1>6, <2>2 DEF processPendingTransaction
    <3> HIDE DEF outbid
    <3>3. frontruns' \in 0 .. MaxFrontruns
      BY <1>4, <3>1, <3>2
    <3>4. /\ DOMAIN pendingTxs' = DOMAIN pendingTxs \cup {asking}
          /\ pendingTxs' \in [DOMAIN pendingTxs' -> Nat] /\ pendingTxs'[asking] = 0
          /\ \A h \in DOMAIN pendingTxs : h # asking => pendingTxs'[h] = pendingTxs[h]
      BY <1>4, <3>2 DEF Put
    <3>5. IsFiniteSet(DOMAIN pendingTxs')
      BY <1>4, <3>4, FS_AddElement
    <3>6. DOMAIN pendingTxs' \subseteq Uniswap /\ elapsed' \in 0 .. CleanupPeriod
      BY <1>4, <2>1, <2>2, <3>4
    <3>7. \A h \in DOMAIN pendingTxs' : pendingTxs'[h] <= TxLifetime + elapsed'
      BY <1>4, <2>1, <3>4
    <3>8. QED
      BY <3>3, <3>4, <3>5, <3>6, <3>7
  <2>3. CASE ~(pending /\ asking \in Uniswap)
    BY <1>4, <1>6, <2>1, <2>3 DEF processPendingTransaction
  <2>4. QED
    BY <2>2, <2>3
<1>7. ASSUME Tick
      PROVE  Good
  <2>1. /\ elapsed < CleanupPeriod /\ elapsed' = elapsed + 1 /\ frontruns' = frontruns
        /\ pendingTxs' = [h \in DOMAIN pendingTxs |-> pendingTxs[h] + 1]
    BY <1>7 DEF Tick
  <2>2. QED
    BY <1>4, <2>1
<1>8. ASSUME cleanupOldPendingTxs
      PROVE  Good
  <2> DEFINE kept == {h \in DOMAIN pendingTxs : pendingTxs[h] <= TxLifetime}
  <2>1. elapsed' = 0 /\ frontruns' = frontruns /\ pendingTxs' = Restrict(pendingTxs, kept)
    BY <1>8 DEF cleanupOldPendingTxs
  <2>2. /\ kept \subseteq DOMAIN pendingTxs /\ kept \subseteq Uniswap /\ IsFiniteSet(kept)
        /\ \A h \in kept : pendingTxs[h] <= TxLifetime
    BY <1>4, FS_Subset
  <2> HIDE DEF kept
  <2>3. /\ DOMAIN pendingTxs' = kept /\ pendingTxs' \in [DOMAIN pendingTxs' -> Nat]
        /\ \A h \in kept : pendingTxs'[h] = pendingTxs[h]
    BY <1>4, <2>1, <2>2 DEF Restrict
  <2>4. DOMAIN pendingTxs' \subseteq Uniswap /\ \A h \in DOMAIN pendingTxs' : pendingTxs'[h] <= TxLifetime
    BY <2>2, <2>3
  <2>5. /\ frontruns' \in 0 .. MaxFrontruns /\ elapsed' \in 0 .. CleanupPeriod
        /\ TxLifetime + elapsed' = TxLifetime /\ IsFiniteSet(DOMAIN pendingTxs')
    BY <1>4, <2>1, <2>2, <2>3
  <2>6. QED
    BY <2>3, <2>4, <2>5
<1>9. Good
  BY <1>5, <1>6, <1>7, <1>8
<1>10. MonitorTypeOK'
  BY <1>1, <1>2, <1>3, <1>9 DEF MonitorIInv, MonitorTypeOK, SocketTypes,
         DeliveryTypes, MempoolTypes, LoopSteps, lifecycle, socket
<1>11. QED
  BY <1>9, <1>10 DEF MonitorIInv, PendingIsYoung

LEMMA BaseNextIInv ==
  ASSUME MonitorIInv /\ TrackerIInv, [BaseNext]_baseVars
  PROVE  (MonitorIInv /\ TrackerIInv)'
<1>1. ASSUME UNCHANGED connection
      PROVE  MonitorIInv'
  <2>1. UNCHANGED <<source, running, cancelled, start, stop, closed, conn, open, dials, loop, queue,
                    drain, stats, pendingTxs, asking, frontruns, elapsed, panicked>>
    BY <1>1 DEF connection, lifecycle, socket, delivery, mempool
  <2>2. MonitorTypeOK'
    <3>1. SocketTypes'
      BY <2>1 DEF MonitorIInv, MonitorTypeOK, SocketTypes
    <3>2. DeliveryTypes'
      BY <2>1 DEF MonitorIInv, MonitorTypeOK, DeliveryTypes
    <3>3. MempoolTypes'
      BY <2>1 DEF MonitorIInv, MonitorTypeOK, MempoolTypes
    <3>4. QED
      BY <2>1, <3>1, <3>2, <3>3 DEF MonitorIInv, MonitorTypeOK
  <2>3. PendingIsYoung' /\ IsFiniteSet(DOMAIN pendingTxs')
    BY <2>1 DEF MonitorIInv, PendingIsYoung
  <2>4. QED
    BY <2>2, <2>3 DEF MonitorIInv
<1>2. CASE UNCHANGED baseVars
  BY <1>1, <1>2, TrackerNextIInv DEF baseVars
<1>3. CASE TrackerNext /\ UNCHANGED connection
  BY <1>1, <1>3, TrackerNextIInv
<1>4. CASE BaseNext /\ ~(TrackerNext /\ UNCHANGED connection)
  <2>1. UNCHANGED trackerVars
    BY <1>4
       DEF BaseNext, LoopNext, DrainNext, StopNext, Start, StopCancels, StopHangsUp, StopCloses,
       LoopChecks, connect, connectFails, subscribe, readMessages, ReadEnds, disconnect, LoopTicks,
       LogArrives, ConnectionLost, SendEvent, Receive, Handled, HashArrives,
       processPendingTransaction, Tick, cleanupOldPendingTxs, Connected
  <2>2. MonitorIInv'
    BY <1>4, SocketSteps, DeliverySteps, PendingSteps DEF BaseNext, LoopNext, DrainNext
  <2>3. QED
    BY <2>1, <2>2, TrackerNextIInv
<1>5. QED
  BY <1>2, <1>3, <1>4

LEMMA BaseIInvHolds == BaseSpec => [](MonitorIInv /\ TrackerIInv)
<1>1. BaseInit => MonitorIInv /\ TrackerIInv
  BY MonitorInitIInv, TrackerInitIInv DEF BaseInit
<1>2. (MonitorIInv /\ TrackerIInv) /\ [BaseNext]_baseVars => (MonitorIInv /\ TrackerIInv)'
  BY BaseNextIInv
<1>3. QED
  BY <1>1, <1>2, PTL DEF BaseSpec

\* The connections, the events, the transactions and the tracker keep their types,
\* whatever the node sends and however often the connection is lost.
THEOREM BaseTypeCorrect == BaseSpec => []BaseTypeOK
<1>1. MonitorIInv /\ TrackerIInv => BaseTypeOK
  BY DEF MonitorIInv, TrackerIInv, BaseTypeOK
<1>2. QED
  BY <1>1, BaseIInvHolds, PTL

\* For any lifetime, period and set of transactions: none is kept longer than one
\* period past its lifetime while the cleanup runs.
THEOREM PendingAreForgotten == BaseSpec => []PendingIsForgotten
<1>1. MonitorIInv => PendingIsForgotten
  <2> SUFFICES ASSUME MonitorIInv, NEW h \in DOMAIN pendingTxs
               PROVE  pendingTxs[h] <= TxLifetime + CleanupPeriod
    BY DEF PendingIsForgotten
  <2>1. pendingTxs[h] <= TxLifetime + elapsed /\ elapsed \in 0 .. CleanupPeriod
        /\ pendingTxs[h] \in Nat
    BY DEF MonitorIInv, MonitorTypeOK, SocketTypes,
         DeliveryTypes, MempoolTypes, PendingIsYoung
  <2>2. QED
    BY <2>1, MonitorSizes
<1>2. QED
  BY <1>1, BaseIInvHolds, PTL

\* For any depth, chain and number of reorganisations: an undisturbed check leaves
\* the node's headers, and no mark on them but one written in the middle of one.
THEOREM ChecksSettle == BaseSpec => []CheckSettles
<1>1. TrackerIInv => CheckSettles
  <2> SUFFICES ASSUME TrackerIInv, check.at = "fetching", check.number > check.latest, quiet,
                      NEW n \in DOMAIN blocks, n \in Minus(lastBlock, Depth) .. lastBlock
               PROVE  /\ blocks[n] = [block |-> chain[n], whole |-> TRUE]
                      /\ n = lastBlock \/ n \in raced \/ Skips(n)
    BY DEF CheckSettles
  <2>1. head = NoHead /\ check.latest = lastBlock
    BY DEF TrackerIInv, QuietIsUndisturbed
  <2>2. /\ Minus(lastBlock, Depth) \in Int /\ lastBlock \in Nat /\ check.number \in Int
    BY MinusIsInt, TrackerSizes DEF TrackerIInv, TrackerTypeOK
  <2>3. n \in Minus(lastBlock, Depth) .. check.number - 1
    BY <2>1, <2>2
  <2>4. blocks[n] = [block |-> chain[n], whole |-> TRUE]
    BY <2>3 DEF TrackerIInv, ComparedIsSettled
  <2>5. Marked(n) => n \in raced
    BY <2>1, <2>4 DEF TrackerIInv, MarkedIsNotWhole, NoHead
  <2>6. QED
    BY <2>2, <2>4, <2>5 DEF Skips
<1>2. QED
  BY <1>1, BaseIInvHolds, PTL

=============================================================================
