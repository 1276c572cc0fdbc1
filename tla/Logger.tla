------------------------------- MODULE Logger -------------------------------
(***************************************************************************)
(* CGlobalLogger (impl/logger_impl.hh) and the files it writes: threads    *)
(* that log under one mutex, the rolling of files, write errors, somebody  *)
(* who removes files, and the handler of crash signals, which writes to    *)
(* the same file without the mutex.                                        *)
(*                                                                         *)
(* A message is Pieces pieces, of which a write may write only some.       *)
(* lgDir is the file of each name: fname_ is 0 and fname_.i is i; lgText   *)
(* is what every file ever made holds.  lgFd is file_, lgNamed says that   *)
(* fname_ is set, lgLock is the owner of lock_, lgThread where a thread    *)
(* is, lgCrash the CSignalParams.  lgOk are the messages whose log         *)
(* returned true.  lgRemoved are the files that were unlinked, lgStuck     *)
(* those whose last rename failed.                                         *)
(*                                                                         *)
(* The rolled files of an earlier process are there, their text left out.  *)
(* Only what level_ lets through is logged (logger.hh:84), one process     *)
(* writes the files, and maxNumber_ stays what it was.                     *)
(***************************************************************************)
EXTENDS Integers, Sequences, FiniteSets

CONSTANTS
    LgThread,   \* threads
    Pieces,     \* pieces of a message
    MaxSize,    \* maxSize_, in pieces
    MaxLogs,    \* bound on the messages
    MaxLives,   \* bound on the processes that log, one after the other
    MaxFiles,   \* bound on the files made after the start
    MaxRemoved, \* bound on the files removed by others (unlinked ones count)
    MaxAgain,   \* times the handler is entered (6 in the code)
    ReportSize  \* writes of a crash report

VARIABLES lgMax, lgDir, lgText, lgFd, lgNamed, lgLock, lgThread, lgCrash, lgLives, lgNext, lgOk, lgRemoved, lgStuck

lgDisk == <<lgDir, lgText>>
lgVars == <<lgMax, lgDir, lgText, lgFd, lgNamed, lgLock, lgThread, lgCrash, lgLives, lgNext, lgOk, lgRemoved, lgStuck>>

Nobody == "none"
Idle == [pc |-> "idle", msg |-> 0, cur |-> 0, again |-> FALSE]
Calm == [handled |-> FALSE, entered |-> Nobody, again |-> 0, at |-> 0]
Names == 0..lgMax

Init ==
    /\ lgMax \in {0, 2}
    /\ lgDir = [n \in Names |-> IF n = 0 THEN 0 ELSE lgMax + 1 - n]
    /\ lgText = [f \in 1..lgMax |-> <<>>]
    /\ lgFd = 0 /\ lgNamed = FALSE
    /\ lgLock = Nobody /\ lgThread = [t \in LgThread |-> Idle]
    /\ lgCrash = Calm
    /\ lgLives = 1 /\ lgNext = 1 /\ lgOk = {} /\ lgRemoved = {} /\ lgStuck = {}

\* A thread is on its way until a crash has it pause; only who entered the handler
\* goes on, and not where it was.
Runs(t) == lgThread[t].pc # "pause" /\ lgCrash.entered # t
At(t, pc) == Runs(t) /\ lgThread[t].pc = pc
Goto(t, pc) == lgThread' = [lgThread EXCEPT ![t].pc = pc]
Return(t) == lgThread' = [lgThread EXCEPT ![t] = Idle] /\ lgLock' = Nobody

----------------------------------------------------------------------------
\* ensureFile: the file of fname_, made if it is not there.
Opened ==
    IF lgDir[0] # 0
    THEN UNCHANGED lgDisk /\ lgFd' = lgDir[0]
    ELSE /\ Len(lgText) - lgMax < MaxFiles
         /\ lgText' = Append(lgText, <<>>)
         /\ lgDir' = [lgDir EXCEPT ![0] = Len(lgText) + 1]
         /\ lgFd' = Len(lgText) + 1

\* init, called once: opens the file, or cannot.
InitLog(t) ==
    /\ At(t, "idle") /\ lgLock = Nobody /\ ~lgNamed
    /\ Opened \/ (lgFd' = 0 /\ UNCHANGED lgDisk)
    /\ lgNamed' = TRUE
    /\ UNCHANGED <<lgMax, lgLock, lgThread, lgCrash, lgLives, lgNext, lgOk, lgRemoved, lgStuck>>

\* log
Log(t) ==
    /\ At(t, "idle") /\ lgLock = Nobody /\ lgNext <= MaxLogs
    /\ lgLock' = t
    /\ lgThread' = [lgThread EXCEPT ![t] = [Idle EXCEPT !.pc = "check", !.msg = lgNext]]
    /\ lgNext' = lgNext + 1
    /\ UNCHANGED <<lgMax, lgNamed, lgDir, lgText, lgFd, lgCrash, lgLives, lgOk, lgRemoved, lgStuck>>

\* A file that was deleted is let go, one that is full is rolled.
Deleted == \A n \in Names : lgDir[n] # lgFd

Check(t) ==
    /\ At(t, "check")
    /\ lgFd' = IF lgFd # 0 /\ Deleted THEN 0 ELSE lgFd
    /\ lgThread' = [lgThread EXCEPT ![t] =
                      IF lgFd' # 0 /\ Len(lgText[lgFd]) >= MaxSize
                      THEN [@ EXCEPT !.pc = "roll", !.cur = IF lgMax = 0 THEN 0 ELSE lgMax - 1]
                      ELSE [@ EXCEPT !.pc = "write"]]
    /\ UNCHANGED <<lgMax, lgNamed, lgDir, lgText, lgLock, lgCrash, lgLives, lgNext, lgOk, lgRemoved, lgStuck>>

\* rollFile: one rename after the other, the oldest first.  Nobody looks at what rename
\* returns: a file that could not be renamed stays where it is, and the next rename
\* goes over it.
Renamed(from, to) ==
    LET file == lgDir[from]
    IN  IF file = 0 THEN UNCHANGED <<lgDir, lgStuck>>
        ELSE \/ lgDir' = [lgDir EXCEPT ![to] = file, ![from] = 0] /\ lgStuck' = lgStuck \ {file}
             \/ UNCHANGED lgDir /\ lgStuck' = lgStuck \cup {file}

RollOne(t) ==
    /\ At(t, "roll") /\ lgThread[t].cur > 0
    /\ Renamed(lgThread[t].cur, lgThread[t].cur + 1)
    /\ lgThread' = [lgThread EXCEPT ![t].cur = @ - 1]
    /\ UNCHANGED <<lgMax, lgNamed, lgText, lgFd, lgLock, lgCrash, lgLives, lgNext, lgOk, lgRemoved>>

\* The file itself, by the name its descriptor has now; without other names it is
\* unlinked, or cannot be.
RollLast(t) ==
    /\ At(t, "roll") /\ lgThread[t].cur = 0
    /\ IF Deleted THEN UNCHANGED <<lgDir, lgRemoved, lgStuck>>
       ELSE LET name == CHOOSE n \in Names : lgDir[n] = lgFd
            IN  IF lgMax = 0
                THEN /\ \/ lgDir' = [lgDir EXCEPT ![name] = 0] /\ lgRemoved' = lgRemoved \cup {lgFd}
                        \/ UNCHANGED <<lgDir, lgRemoved>>
                     /\ UNCHANGED lgStuck
                ELSE Renamed(name, 1) /\ UNCHANGED lgRemoved
    /\ Goto(t, "close")
    /\ UNCHANGED <<lgMax, lgNamed, lgText, lgFd, lgLock, lgCrash, lgLives, lgNext, lgOk>>

Close(t) ==
    /\ At(t, "close")
    /\ lgFd' = 0
    /\ Goto(t, "write")
    /\ UNCHANGED <<lgMax, lgNamed, lgDir, lgText, lgLock, lgCrash, lgLives, lgNext, lgOk, lgRemoved, lgStuck>>

----------------------------------------------------------------------------
Piece(msg, i) == <<msg, i>>

\* writeLog, one write, which may be short.
Write(t, n) ==
    LET me == lgThread[t]
    IN  /\ At(t, "write") /\ me.cur + n <= Pieces
        /\ IF lgFd = 0 THEN n = 0 /\ lgNamed /\ Opened
           ELSE /\ n > 0 /\ lgFd' = lgFd
                /\ lgText' = [lgText EXCEPT ![lgFd] = @ \o [i \in 1..n |-> Piece(me.msg, me.cur + i)]]
                /\ UNCHANGED lgDir
        /\ IF me.cur + n = Pieces
           THEN Return(t) /\ lgOk' = lgOk \cup {me.msg}
           ELSE lgThread' = [lgThread EXCEPT ![t].cur = @ + n] /\ UNCHANGED <<lgLock, lgOk>>
        /\ UNCHANGED <<lgMax, lgNamed, lgCrash, lgLives, lgNext, lgRemoved, lgStuck>>

\* A mutant of WriteFails: the second try goes on where the first stopped.
WriteFailsGoesOn(t) ==
    /\ At(t, "write")
    /\ IF lgThread[t].again
       THEN Return(t) /\ lgFd' = lgFd
       ELSE /\ lgThread' = [lgThread EXCEPT ![t].again = TRUE]
            /\ lgFd' = 0 /\ UNCHANGED lgLock
    /\ UNCHANGED <<lgMax, lgNamed, lgDir, lgText, lgCrash, lgLives, lgNext, lgOk, lgRemoved, lgStuck>>

\* The write or the opening failed: the file is opened again and the whole message
\* written once more, and then log gives up.
WriteFails(t) ==
    /\ At(t, "write")
    /\ IF lgThread[t].again
       THEN Return(t) /\ lgFd' = lgFd
       ELSE /\ lgThread' = [lgThread EXCEPT ![t] = [@ EXCEPT !.again = TRUE, !.cur = 0]]
            /\ lgFd' = 0 /\ UNCHANGED lgLock
    /\ UNCHANGED <<lgMax, lgNamed, lgDir, lgText, lgCrash, lgLives, lgNext, lgOk, lgRemoved, lgStuck>>

\* Somebody else removes a file.
Remove(n) ==
    /\ lgDir[n] # 0 /\ Cardinality(lgRemoved) < MaxRemoved
    /\ lgRemoved' = lgRemoved \cup {lgDir[n]}
    /\ lgDir' = [lgDir EXCEPT ![n] = 0]
    /\ UNCHANGED <<lgMax, lgNamed, lgText, lgFd, lgLock, lgThread, lgCrash, lgLives, lgNext, lgOk, lgStuck>>

----------------------------------------------------------------------------
\* registerCrashHandler: the handler is the process's, for a thread's crash only its
\* stack is the thread's own.
RegisterCrashHandler(t) ==
    /\ At(t, "idle") /\ ~lgCrash.handled
    /\ lgCrash' = [lgCrash EXCEPT !.handled = TRUE]
    /\ UNCHANGED <<lgMax, lgNamed, lgDir, lgText, lgFd, lgLock, lgThread, lgLives, lgNext, lgOk, lgRemoved, lgStuck>>

\* SignalHandler: the first thread to crash, wherever it is, enters; a fault of its
\* own in the handler starts the report anew, five times at the most.
Enter(t) ==
    /\ lgCrash.handled /\ lgThread[t].pc # "pause" /\ lgCrash.again < MaxAgain
    /\ IF lgCrash.entered \in {Nobody, t}
       THEN /\ lgCrash' = [handled |-> TRUE, entered |-> t, again |-> lgCrash.again + 1,
                           at |-> IF lgCrash.again + 1 = MaxAgain THEN ReportSize ELSE 0]
            /\ UNCHANGED lgThread
       ELSE Goto(t, "pause") /\ UNCHANGED lgCrash
    /\ UNCHANGED <<lgMax, lgNamed, lgDir, lgText, lgFd, lgLock, lgLives, lgNext, lgOk, lgRemoved, lgStuck>>

\* One write of the report, whose text is left out; it opens the file if need be.
Report ==
    /\ lgCrash.entered # Nobody /\ lgCrash.at < ReportSize
    /\ \/ lgFd = 0 /\ lgNamed /\ Opened
       \/ UNCHANGED <<lgDir, lgText, lgFd>>
    /\ lgCrash' = [lgCrash EXCEPT !.at = @ + 1]
    /\ UNCHANGED <<lgMax, lgNamed, lgLock, lgThread, lgLives, lgNext, lgOk, lgRemoved, lgStuck>>

\* The signal again, with its default action; or the process is killed at any
\* point.  Another one is started, which opens the file.
Die ==
    /\ lgLives < MaxLives
    /\ lgCrash.entered # Nobody => lgCrash.at = ReportSize
    /\ lgFd' = 0 /\ lgNamed' = FALSE
    /\ lgLock' = Nobody /\ lgThread' = [t \in LgThread |-> Idle]
    /\ lgCrash' = Calm
    /\ lgLives' = lgLives + 1
    /\ UNCHANGED <<lgMax, lgDir, lgText, lgNext, lgOk, lgRemoved, lgStuck>>

Next ==
    \/ Report \/ Die
    \/ \E n \in Names : Remove(n)
    \/ \E t \in LgThread :
          \/ InitLog(t) \/ Log(t) \/ Check(t) \/ RollOne(t) \/ RollLast(t) \/ Close(t)
          \/ \E n \in 0..Pieces : Write(t, n)
          \/ WriteFails(t) \/ RegisterCrashHandler(t) \/ Enter(t)

Spec == Init /\ [][Next]_lgVars

----------------------------------------------------------------------------
TypeOK ==
    /\ lgDir \in [Names -> 0..Len(lgText)] /\ lgFd \in 0..Len(lgText)
    /\ \A t \in LgThread : lgThread[t].pc \in {"idle", "check", "roll", "close", "write", "pause"}
    /\ lgCrash.again \in 0..MaxAgain /\ lgCrash.at \in 0..ReportSize

\* A message log returned true for is whole and in one piece in some file, whatever
\* was written before, short or twice, and whoever else was logging; only a crash
\* report can be in between (logger_impl.hh:110-190).
WholeMessages ==
    \A m \in lgOk : \E f \in DOMAIN lgText : \E i \in 0..Len(lgText[f]) - Pieces :
        \A k \in 1..Pieces : lgText[f][i + k] = Piece(m, k)

\* The names are in the order of the files, whatever fails; and what rolling drops is
\* older than everything it keeps, also when the process dies while it renames, unless
\* it is a file whose own rename had failed (logger_impl.hh:191-210).
OldestDropped ==
    /\ \A i, j \in Names : (i < j /\ lgDir[i] # 0 /\ lgDir[j] # 0) => lgDir[j] < lgDir[i]
    /\ \A f \in DOMAIN lgText \ (lgRemoved \cup lgStuck) :
          \/ \E n \in Names : lgDir[n] = f
          \/ \A n \in Names : lgDir[n] = 0 \/ lgDir[n] > f

\* Messages are in the files in the order in which they were logged, over all files,
\* so that rolled files can be read one after the other (logger_impl.hh:113-130).
OrderKept ==
    \A f, g \in DOMAIN lgText : f <= g =>
        \A i \in DOMAIN lgText[f], j \in DOMAIN lgText[g] :
            (f < g \/ i < j) => lgText[f][i][1] <= lgText[g][j][1]

\* Whoever has paused has left a thread that goes on to end the process
\* (logger_impl.hh:277-289).
NobodyWaitsForEver ==
    \A t \in LgThread : lgThread[t].pc = "pause" => lgCrash.entered \notin {Nobody, t}
=============================================================================
