------------------------------ MODULE DormRoom ------------------------------
(***************************************************************************)
(* lab09 8-dean/dorm_room.c: students party until the dean is in the room; *)
(* the dean enters when nobody is there or more than wild_party students   *)
(* are.  Both use stud_mutex and dean_mutex, always taken in this order.   *)
(* Main runs test1, which starts the dean and then the students, and then  *)
(* test2, where the student whose start makes it start the dean is started *)
(* twice and only the second thread's handle is kept.                      *)
(***************************************************************************)
EXTENDS Integers, FiniteSets

CONSTANTS
  MAX_STUDENTS,   \* students of a test (15)
  wild_party,     \* more students than this make a wild party (7)
  Surely          \* rand() % r < Surely starts the dean (5)

ASSUME DormRoomAssumption ==
  /\ MAX_STUDENTS \in Nat \ {0}
  /\ wild_party \in Nat
  /\ Surely \in Nat \ {0}

Dean    == -1
Free    == -2   \* nobody holds the mutex
\* Student threads: MAX_STUDENTS, and in test2 one more for the repeated index.
Student == 0..MAX_STUDENTS
Person  == Student \cup {Dean}

VARIABLES
  students_at_party, dean_in_room,
  stud_mutex, dean_mutex,   \* the thread that holds it, or Free
  doing,                    \* where each thread is; "none" before it is created
  test,                     \* 1 in test1, 2 in test2
  idx,                      \* the loop variable i of the test
  dean_started,             \* start_dean was called
  hStudent,                 \* hStudent[i]: the thread whose handle is kept
  main                      \* "start", "wait" in wait_all, "clean", "exit"

party == <<students_at_party, dean_in_room, stud_mutex, dean_mutex, doing, test, idx,
           dean_started, hStudent, main>>
room  == <<students_at_party, dean_in_room>>
locks == <<stud_mutex, dean_mutex>>
tests == <<test, idx, dean_started, hStudent, main>>

\* A thread's loops: enter_room, party, the two loops of break_party, its end.
Loops == {"enter", "party", "look", "clear", "end"}

EmptyRoom ==
  /\ students_at_party = 0 /\ dean_in_room = 0
  /\ stud_mutex = Free /\ dean_mutex = Free
  /\ doing = [t \in Person |-> <<"none", "sleep">>]
  /\ test = 1
  /\ idx = 0
  /\ dean_started = FALSE
  /\ hStudent = [j \in 0..MAX_STUDENTS-1 |-> -1]
  /\ main = "start"

-----------------------------------------------------------------------------
\* test1 and test2

Created == Cardinality({s \in Student : doing[s][1] # "none"})

\* test1: start_dean()
StartDean ==
  /\ main = "start" /\ test = 1
  /\ ~dean_started
  /\ dean_started' = TRUE
  /\ doing' = [doing EXCEPT ![Dean] = <<"look", "sleep">>]
  /\ UNCHANGED <<room, locks, test, idx, hStudent, main>>

\* start_student(idx); dean (in test2): whether rand() % (MAX_STUDENTS - idx) < 5 held.
StartStudent(dean) ==
  /\ main = "start"
  /\ test = 1 => dean_started
  /\ idx < MAX_STUDENTS
  /\ IF dean_started THEN ~dean
     ELSE (~dean => MAX_STUDENTS - idx > Surely)
  /\ hStudent' = [hStudent EXCEPT ![idx] = Created]
  /\ doing' = [doing EXCEPT ![Created] = <<"enter", "sleep">>,
                      ![Dean] = IF dean THEN <<"look", "sleep">> ELSE @]
  /\ dean_started' = (dean_started \/ dean)
  /\ idx' = IF dean THEN idx ELSE idx + 1
  /\ UNCHANGED <<room, locks, test, main>>

AllStarted ==
  /\ main = "start"
  /\ idx = MAX_STUDENTS
  /\ main' = "wait"
  /\ UNCHANGED <<room, locks, doing, test, idx, dean_started, hStudent>>

\* wait_all
Awaited == {hStudent[j] : j \in 0..MAX_STUDENTS-1} \cup {Dean}

WaitAll ==
  /\ main = "wait"
  /\ \A t \in Awaited : doing[t] = <<"end", "sleep">>
  /\ main' = IF test = 1 THEN "clean" ELSE "exit"
  /\ UNCHANGED <<room, locks, doing, test, idx, dean_started, hStudent>>

\* The end of test1 cleans the room for test2, whose threads are new ones.
CleanAll ==
  /\ main = "clean"
  /\ students_at_party' = 0 /\ dean_in_room' = 0
  /\ doing' = [t \in Person |-> <<"none", "sleep">>]
  /\ test' = 2
  /\ idx' = 0
  /\ dean_started' = FALSE
  /\ main' = "start"
  /\ UNCHANGED <<locks, hStudent>>

-----------------------------------------------------------------------------
\* the critical sections: "sleep" outside, "one" and "both" mutexes held, then
\* "left" when dean_mutex was released

TakeStud(t) ==
  /\ doing[t][1] \notin {"none", "end"} /\ doing[t][2] = "sleep"
  /\ stud_mutex = Free
  /\ stud_mutex' = t
  /\ doing' = [doing EXCEPT ![t][2] = "one"]
  /\ UNCHANGED <<room, dean_mutex, tests>>

TakeDean(t) ==
  /\ doing[t][2] = "one"
  /\ dean_mutex = Free
  /\ dean_mutex' = t
  /\ doing' = [doing EXCEPT ![t][2] = "both"]
  /\ UNCHANGED <<room, stud_mutex, tests>>

\* The decision taken under both mutexes; dean_mutex is released after it.
Decide(t, next) ==
  /\ doing[t][2] = "both"
  /\ doing' = [doing EXCEPT ![t] = <<next, "left">>]
  /\ dean_mutex' = Free
  /\ UNCHANGED <<stud_mutex, tests>>

\* Faulty variant: the student does not look for the dean.
EnterRoomBlind(s) ==
  /\ doing[s][1] = "enter"
  /\ Decide(s, "party")
  /\ students_at_party' = students_at_party + 1
  /\ UNCHANGED dean_in_room

EnterRoom(s) ==
  /\ doing[s][1] = "enter"
  /\ Decide(s, IF dean_in_room = 0 THEN "party" ELSE "end")
  /\ students_at_party' = students_at_party + (IF dean_in_room = 0 THEN 1 ELSE 0)
  /\ UNCHANGED dean_in_room

\* Faulty variant: the student is counted out whether it leaves or not.
PartyCountsDown(s) ==
  /\ doing[s][1] = "party"
  /\ Decide(s, IF dean_in_room # 0 THEN "end" ELSE "party")
  /\ students_at_party' = students_at_party - 1
  /\ UNCHANGED dean_in_room

Party(s) ==
  /\ doing[s][1] = "party"
  /\ Decide(s, IF dean_in_room # 0 THEN "end" ELSE "party")
  /\ students_at_party' = students_at_party - (IF dean_in_room # 0 THEN 1 ELSE 0)
  /\ UNCHANGED dean_in_room

BreakParty ==
  LET enters == students_at_party > wild_party \/ students_at_party = 0 IN
  /\ doing[Dean][1] = "look"
  /\ Decide(Dean, IF enters THEN "clear" ELSE "look")
  /\ dean_in_room' = IF enters THEN 1 ELSE dean_in_room
  /\ UNCHANGED students_at_party

PartyOver ==
  /\ doing[Dean][1] = "clear"
  /\ Decide(Dean, IF students_at_party = 0 THEN "end" ELSE "clear")
  /\ UNCHANGED room

\* Faulty variant: the early returns of a student forget stud_mutex.
FreeStudUnlessEnd(t) ==
  /\ doing[t][2] = "left"
  /\ stud_mutex' = IF doing[t][1] = "end" THEN stud_mutex ELSE Free
  /\ doing' = [doing EXCEPT ![t][2] = "sleep"]
  /\ UNCHANGED <<room, dean_mutex, tests>>

FreeStud(t) ==
  /\ doing[t][2] = "left"
  /\ stud_mutex' = Free
  /\ doing' = [doing EXCEPT ![t][2] = "sleep"]
  /\ UNCHANGED <<room, dean_mutex, tests>>

Decision(t) ==
  IF t = Dean THEN BreakParty \/ PartyOver ELSE EnterRoom(t) \/ Party(t)

Main == StartDean \/ (\E d \in BOOLEAN : StartStudent(d)) \/ AllStarted \/ WaitAll \/ CleanAll

RoomNext == Main \/ \E t \in Person : TakeStud(t) \/ TakeDean(t) \/ Decision(t) \/ FreeStud(t)

RoomSpec == EmptyRoom /\ [][RoomNext]_party

\* Threads keep running and a mutex wait is served: waiters of a Windows mutex
\* queue up, so a thread that keeps asking for stud_mutex gets it.
FairRoom ==
  /\ RoomSpec
  /\ WF_party(Main)
  /\ \A t \in Person :
       SF_party(TakeStud(t)) /\ WF_party(TakeDean(t) \/ Decision(t) \/ FreeStud(t))

-----------------------------------------------------------------------------
(***************************************************************************)
(* Properties                                                              *)
(***************************************************************************)
\* The room, the mutexes, the threads and main's variables have their types.
RoomTypeOK ==
  /\ students_at_party \in 0..MAX_STUDENTS+1
  /\ dean_in_room \in {0, 1}
  /\ stud_mutex \in Person \cup {Free} /\ dean_mutex \in Person \cup {Free}
  /\ doing \in [Person -> (Loops \cup {"none"}) \X {"sleep", "one", "both", "left"}]
  /\ idx \in 0..MAX_STUDENTS
  /\ dean_started \in BOOLEAN
  /\ hStudent \in [0..MAX_STUDENTS-1 -> Student \cup {-1}]
  /\ test \in {1, 2}
  /\ main \in {"start", "wait", "clean", "exit"}

\* students_at_party counts the students in party(), though each thread changes it.
CountIsParty ==
  students_at_party = Cardinality({s \in Student : doing[s][1] = "party"})

\* wait_all leaves a student behind only when test2 started another one with the
\* same index and overwrote its handle (line 235); nothing else is left to run.
OnlyOverwrittenLeft ==
  main \in {"clean", "exit"} =>
    \A s \in Student :
      \/ doing[s][1] \in {"none", "end"}
      \/ test = 2 /\ \A n \in 0..MAX_STUDENTS-1 : hStudent[n] # s

\* What the tests rely on when they reset or report the room.
RoomInv == RoomTypeOK /\ CountIsParty /\ OnlyOverwrittenLeft

\* The dean is done only when the room is empty, and from then on nobody parties:
\* a student that saw the room without the dean cannot slip in after him.
PartyIsOver == doing[Dean][1] = "end" => students_at_party = 0

\* More students than wild_party always bring the dean in: both tests end.
TestsEnd == <>(main = "exit")
=============================================================================
