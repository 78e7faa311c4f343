------------------------------ MODULE Portfolio ------------------------------
(***************************************************************************)
(* internal/wallet/portfolio.go: positions behind a sync.RWMutex, and the  *)
(* file they are saved to.  A critical section under Lock is one step; a   *)
(* Save holds the read lock over its steps on the file system, where an    *)
(* open file goes along when it is renamed, and CalculateStatistics takes  *)
(* the read lock a second time.  The process may crash at any moment and   *)
(* load the file.                                                          *)
(***************************************************************************)

CONSTANTS
  Positions,  \* position identifiers
  Threads,    \* goroutines that use the portfolio
  Returns,    \* amounts ClosePosition records as TotalReturn
  Torn,       \* the content of a file that is being written
  None        \* nil, no entry in the map, no file

Position == [status : {"open", "closed"}, totalReturn : Returns \cup {None}]
Portfolios == [Positions -> Position \cup {None}]

ASSUME NoneIsNothing == None \notin Position \cup Returns \cup Positions \cup {"tmp", "path"}
ASSUME NoneIsNoFile == None \notin Portfolios \cup {Torn}
ASSUME TornIsNoPortfolio == Torn \notin Portfolios

VARIABLES
  up,         \* the process is running
  positions,  \* p.positions
  thread,     \* [Threads -> where the call is, its arguments and local variables]
  readers,    \* the threads that hold the read lock
  path,       \* what the saved file holds, None without one
  tmp,        \* what path + ".tmp" holds
  shared      \* history: names of files a Save opened between another's open and rename

files == <<path, tmp, shared>>
vars == <<up, positions, thread, readers, files>>

---------------------------------------------------------------------------
(* The lock.  A waiting writer keeps new readers out, and lets those that     *)
(* wait in when it unlocks.                                                   *)

\* The calls by what they do next: Writers wait in p.mu.Lock(), Readers in
\* p.mu.RLock(), and "pnl" in the RLock() of CalculateTotalPnL.
Writers == {"add", "update", "close", "remove"}
Readers == {"save", "statistics"}
Steps == Writers \cup Readers \cup {"idle", "pnl", "marshal", "open", "write", "rename"}

NewPortfolio == [p \in Positions |-> None]

\* arg is the status of an UpdatePosition or the return of a ClosePosition.
Idle == [at |-> "idle", position |-> None, arg |-> None, data |-> NewPortfolio, fd |-> None]

CanLock(t, step) == thread[t].at = step /\ readers = {}
CanRLock(t, step) == thread[t].at = step /\ \A u \in Threads : thread[u].at \notin Writers

Granted(r) == [r EXCEPT !.at = IF @ = "save" THEN "marshal" ELSE "pnl"]

UnlockAndReturn(t) ==
  LET waiting == {u \in Threads : thread[u].at \in Readers}
  IN /\ readers' = waiting
     /\ thread' = [u \in Threads |->
          IF u = t THEN Idle ELSE IF u \in waiting THEN Granted(thread[u]) ELSE thread[u]]

RLock(t) ==
  /\ \E step \in Readers : CanRLock(t, step)
  /\ readers' = readers \cup {t}
  /\ thread' = [thread EXCEPT ![t] = Granted(@)]
  /\ UNCHANGED <<up, positions, files>>

RUnlockAndReturn(t) ==
  /\ readers' = readers \ {t}
  /\ thread' = [thread EXCEPT ![t] = Idle]

---------------------------------------------------------------------------
(* Positions *)

Init ==
  /\ up = TRUE
  /\ positions = NewPortfolio
  /\ thread = [t \in Threads |-> Idle]
  /\ readers = {}
  /\ path = None /\ tmp = None
  /\ shared = {}

Call(t, step, p, arg) ==
  /\ thread[t].at = "idle"
  /\ thread' = [thread EXCEPT ![t].at = step, ![t].position = p, ![t].arg = arg]
  /\ UNCHANGED <<up, positions, readers, files>>

\* A write to the map; it is refused where allowed does not hold.
Change(t, step, allowed, new) ==
  /\ CanLock(t, step)
  /\ positions' = IF allowed THEN [positions EXCEPT ![thread[t].position] = new] ELSE positions
  /\ UnlockAndReturn(t)
  /\ UNCHANGED <<up, files>>

\* The position as the code sees it under the lock.
Stored(t) == positions[thread[t].position]

AddPosition(t) ==
  Change(t, "add", Stored(t) = None, [status |-> "open", totalReturn |-> None])

\* Only what the update holds is changed: a closed position may be opened again, and
\* keeps its return; one closed like this has none.
UpdatePosition(t) ==
  Change(t, "update", Stored(t) # None /\ thread[t].arg # None,
         [Stored(t) EXCEPT !.status = thread[t].arg])

\* Mutant: the check for a position that is closed already is missing.
ClosePosition_Again(t) ==
  Change(t, "close", Stored(t) # None, [status |-> "closed", totalReturn |-> thread[t].arg])

ClosePosition(t) ==
  Change(t, "close", Stored(t) # None /\ Stored(t).status # "closed",
         [status |-> "closed", totalReturn |-> thread[t].arg])

RemovePosition(t) == Change(t, "remove", Stored(t) # None, None)

\* CalculateTotalPnL takes the read lock again, and returns with both released.
CalculateTotalPnL(t) ==
  /\ CanRLock(t, "pnl")
  /\ RUnlockAndReturn(t)
  /\ UNCHANGED <<up, positions, files>>

---------------------------------------------------------------------------
(* Save and LoadPortfolio *)

\* Mutant: the lock is released as soon as the positions are encoded.
Marshal_Unlocks(t) ==
  /\ thread[t].at = "marshal"
  /\ thread' = [thread EXCEPT ![t].at = "open", ![t].data = positions]
  /\ readers' = readers \ {t}
  /\ UNCHANGED <<up, positions, files>>

Marshal(t) ==
  /\ thread[t].at = "marshal"
  /\ thread' = [thread EXCEPT ![t].at = "open", ![t].data = positions]
  /\ UNCHANGED <<up, positions, readers, files>>

\* Some Save is past opening the temporary file.
Overlapped == \E u \in Threads : thread[u].at \in {"write", "rename"}

\* Mutant: the saved file is written in place.
OpenTmp_InPlace(t) ==
  /\ thread[t].at = "open"
  /\ path' = Torn
  /\ thread' = [thread EXCEPT ![t].at = "write", ![t].fd = "path"]
  /\ UNCHANGED <<up, positions, readers, tmp, shared>>

\* os.WriteFile opens the temporary file, creates or truncates it, ...
OpenTmp(t) ==
  /\ thread[t].at = "open"
  /\ tmp' = Torn
  /\ shared' = IF Overlapped THEN shared \cup {"tmp"} ELSE shared \ {"tmp"}
  /\ thread' = [thread EXCEPT ![t].at = "write", ![t].fd = "tmp"]
  /\ UNCHANGED <<up, positions, readers, path>>

\* ... and writes all of it, wherever the file has been moved since.
Write(t) ==
  /\ thread[t].at = "write"
  /\ tmp' = IF thread[t].fd = "tmp" THEN thread[t].data ELSE tmp
  /\ path' = IF thread[t].fd = "path" THEN thread[t].data ELSE path
  /\ thread' = [thread EXCEPT ![t].at = "rename", ![t].fd = None]
  /\ UNCHANGED <<up, positions, readers, shared>>

\* It fails to open or to write: Save returns the error.
WriteFails(t) ==
  /\ thread[t].at \in {"open", "write"}
  /\ RUnlockAndReturn(t)
  /\ UNCHANGED <<up, positions, files>>

Moved(fd) == CASE fd = "tmp" -> "path" [] fd = "path" -> None [] OTHER -> fd

Rename(t) ==
  /\ thread[t].at = "rename" /\ tmp # None
  /\ path' = tmp /\ tmp' = None
  /\ shared' = IF "tmp" \in shared THEN {"path"} ELSE {}
  /\ readers' = readers \ {t}
  /\ thread' = [u \in Threads |->
       IF u = t THEN Idle ELSE [thread[u] EXCEPT !.fd = Moved(@)]]
  /\ UNCHANGED <<up, positions>>

\* Mutant: Save returns the error without releasing the lock.
RenameFails_KeepsLock(t) ==
  /\ thread[t].at = "rename"
  /\ thread' = [thread EXCEPT ![t] = Idle]
  /\ UNCHANGED <<up, positions, readers, files>>

\* It fails, also when another Save has renamed the file already.
RenameFails(t) ==
  /\ thread[t].at = "rename"
  /\ RUnlockAndReturn(t)
  /\ UNCHANGED <<up, positions, files>>

Crash ==
  /\ up
  /\ up' = FALSE
  /\ positions' = NewPortfolio
  /\ thread' = [t \in Threads |-> Idle]
  /\ readers' = {}
  /\ UNCHANGED files

\* A file that is missing or does not parse is an error: start from nothing.
LoadPortfolio ==
  /\ ~up
  /\ up' = TRUE
  /\ positions' = IF path \in {None, Torn} THEN NewPortfolio ELSE path
  /\ UNCHANGED <<thread, readers, files>>

---------------------------------------------------------------------------
Save(t) == Marshal(t) \/ OpenTmp(t) \/ Write(t) \/ WriteFails(t) \/ Rename(t) \/ RenameFails(t)

Step(t) ==
  \/ AddPosition(t) \/ UpdatePosition(t) \/ ClosePosition(t) \/ RemovePosition(t)
  \/ RLock(t) \/ CalculateTotalPnL(t) \/ Save(t)

Begin(t) ==
  /\ up
  /\ \/ \E step \in Readers : Call(t, step, None, None)
     \/ \E p \in Positions :
          \/ \E step \in {"add", "remove"} : Call(t, step, p, None)
          \/ \E status \in {"open", "closed", None} : Call(t, "update", p, status)
          \/ \E r \in Returns : Call(t, "close", p, r)

Next ==
  \/ \E t \in Threads : Step(t) \/ Begin(t)
  \/ Crash
  \/ LoadPortfolio

Spec == Init /\ [][Next]_vars

\* The Go scheduler runs every goroutine, and a mutex hands over to one that has
\* waited for long.
FairSpec == Spec /\ \A t \in Threads : SF_vars(Step(t))

---------------------------------------------------------------------------
(* Properties *)

ThreadType ==
  [at : Steps, position : Positions \cup {None},
   arg : {"open", "closed", None} \cup Returns,
   data : Portfolios, fd : {"tmp", "path", None}]

\* Every call, the map and the files are well typed; whoever encodes, writes or
\* renames holds the read lock.
TypeOK ==
  /\ up \in BOOLEAN
  /\ positions \in Portfolios
  /\ thread \in [Threads -> ThreadType]
  /\ readers = {t \in Threads : thread[t].at \in {"pnl", "marshal", "open", "write", "rename"}}
  /\ path \in Portfolios \cup {Torn, None} /\ tmp \in Portfolios \cup {Torn, None}
  /\ shared \subseteq {"tmp", "path"}

\* The return of a position is recorded once: while it stays closed, no second
\* ClosePosition, and no update, changes what was returned.
ReturnRecordedOnce ==
  [][\A p \in Positions :
       (up' /\ up /\ positions[p] # None /\ positions'[p] # None) =>
         (positions[p].status = "closed" /\ positions'[p].status = "closed" =>
            positions'[p].totalReturn = positions[p].totalReturn)]_vars

\* "WriteFileAtomic writes to a file atomically": a Save that no other
\* overlaps between open and rename never leaves a partial file, wherever
\* Saves fail and whenever the process crashes.
TornOnlyIfShared == path = Torn => "path" \in shared

\* Whenever the saved file changes it holds the positions of that very moment,
\* although they were encoded several steps before, and perhaps by another Save; or
\* that other Save has truncated it and not yet written them.
PublishedIsCurrent == [][path' # path => path' \in {positions, Torn}]_vars

\* A CalculateStatistics that waits for its second read lock behind a writer, which
\* waits for it to release the first.
Stuck == \E t, u \in Threads : thread[t].at = "pnl" /\ thread[u].at \in Writers

\* Every call returns unless a CalculateStatistics and a writer wait for each other.
CallsReturn ==
  \A t \in Threads : thread[t].at # "idle" ~> thread[t].at = "idle" \/ Stuck

=============================================================================
