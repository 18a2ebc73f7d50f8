---------------------------- MODULE ActivityStack ----------------------------
(***************************************************************************)
(* ActivityStackManager.java: the stack of the application's activities.   *)
(* Every activity adds itself when it is created and takes itself off when *)
(* it is destroyed (BaseActivity); the other operations finish groups of   *)
(* activities.  All of it runs on the UI thread, one call at a time.       *)
(***************************************************************************)
EXTENDS Naturals, Sequences, FiniteSets, SequencesExt

CONSTANTS Activities, (* the activities that may be created, once each       *)
          ClassOf(_)  (* their classes                                       *)

VARIABLES
  activityStack,  (* bottom first                                           *)
  living,         (* created and not destroyed                              *)
  finished,       (* asked to finish                                        *)
  created,        (* created so far                                         *)
  kept,           (* what the last call was to keep of what was on the stack *)
  several,        (* history: a call was given several things to keep       *)
  thrown          (* what the last call threw                               *)

stackVars == <<activityStack, living, finished, created, kept, several, thrown>>

Classes == {ClassOf(a) : a \in Activities}
OnStack == ToSet(activityStack)

StackInit ==
  /\ activityStack = <<>> /\ living = {} /\ finished = {} /\ created = {}
  /\ kept = {} /\ several = FALSE /\ thrown = "no"

(* BaseActivity.onCreated *)
AddActivity(a) ==
  /\ a \notin created
  /\ activityStack' = Append(activityStack, a)
  /\ created' = created \cup {a} /\ living' = living \cup {a}
  /\ kept' = {} /\ thrown' = "no"
  /\ UNCHANGED <<finished, several>>

(* BaseActivity.onDestroy: finishActivity(this).  The system destroys what *)
(* has been asked to finish, and others when it likes.                     *)
DestroyActivity(a) ==
  /\ a \in living
  /\ activityStack' = RemoveFirst(activityStack, a)
  /\ finished' = finished \cup {a} /\ living' = living \ {a}
  /\ kept' = {} /\ thrown' = "no"
  /\ UNCHANGED <<created, several>>

FinishTopActivity ==
  /\ activityStack # <<>>
  /\ finished' = finished \cup {Last(activityStack)}
  /\ activityStack' = RemoveFirst(activityStack, Last(activityStack))
  /\ kept' = ToSet(Front(activityStack)) /\ thrown' = "no"
  /\ UNCHANGED <<living, created, several>>

(* The stack after an iteration that removes the activities in gone.        *)
Without(stack, gone) ==
  LET left[i \in 0..Len(stack)] ==
        CASE i = 0 -> <<>>
          [] i > 0 /\ stack[i] \in gone -> left[i - 1]
          [] OTHER -> Append(left[i - 1], stack[i])
  IN left[Len(stack)]

(* finishActivity(Class) *)
FinishClass(c) ==
  /\ finished' = finished \cup {a \in OnStack : ClassOf(a) = c}
  /\ activityStack' = Without(activityStack, {a \in OnStack : ClassOf(a) = c})
  /\ kept' = {a \in OnStack : ClassOf(a) # c} /\ thrown' = "no"
  /\ UNCHANGED <<living, created, several>>

FinishAllActivity ==
  /\ finished' = finished \cup OnStack
  /\ activityStack' = <<>>
  /\ kept' = {} /\ thrown' = "no"
  /\ UNCHANGED <<living, created, several>>

(* finishOtherActivity(Activity...): an activity goes if some argument is   *)
(* another one.  The first removal breaks the iteration: it ends without a  *)
(* look at the last activity if the one before it was removed, and throws   *)
(* otherwise.                                                               *)
FinishOther(keep) ==
  LET goes == {i \in DOMAIN activityStack : keep \ {activityStack[i]} # {}}
      first == CHOOSE i \in goes : \A j \in goes : i <= j
  IN /\ IF goes = {}
        THEN UNCHANGED <<activityStack, finished>> /\ thrown' = "no"
        ELSE /\ activityStack' = RemoveFirst(activityStack, activityStack[first])
             /\ finished' = finished \cup {activityStack[first]}
             /\ thrown' = IF first = Len(activityStack) - 1 THEN "no"
                          ELSE "ConcurrentModification"
     /\ kept' = keep
     /\ several' = (several \/ Cardinality(keep) > 1)
     /\ UNCHANGED <<living, created>>

(* Faulty variant: the classes given are the ones that go.                  *)
Misses_Swapped(a, classes) == Cardinality({c \in classes : ClassOf(a) = c})

(* finishOtherActivity(Class...), from the top: remove(i) once for every    *)
(* class that is not the activity's, so with two classes the activity above *)
(* goes as well, or the index is out of bounds.                             *)
Misses(a, classes) == Cardinality({c \in classes : ClassOf(a) # c})

RemoveMissing(s, i, classes) ==
  LET n == Misses(s.stack[i], classes) IN
  CASE s.thrown # "no" \/ n = 0 -> s
    [] s.thrown = "no" /\ n > 0 /\ i + n - 1 > Len(s.stack) ->
         [stack |-> SubSeq(s.stack, 1, i - 1), gone |-> s.gone \cup {s.stack[i]},
          thrown |-> "IndexOutOfBounds"]
    [] OTHER ->
         [s EXCEPT !.stack = SubSeq(@, 1, i - 1) \o SubSeq(@, i + n, Len(@)),
                   !.gone = @ \cup {s.stack[i]}]

FinishOtherClasses(classes) ==
  LET size == Len(activityStack)
      after[k \in 0..size] ==
        IF k = 0 THEN [stack |-> activityStack, gone |-> {}, thrown |-> "no"]
        ELSE RemoveMissing(after[k - 1], size + 1 - k, classes)
      r == after[size]
  IN /\ activityStack' = r.stack
     /\ finished' = finished \cup r.gone
     /\ thrown' = r.thrown
     /\ kept' = {a \in OnStack : ClassOf(a) \in classes}
     /\ several' = (several \/ Cardinality(classes) > 1)
     /\ UNCHANGED <<living, created>>

StackNext ==
  \/ \E a \in Activities : AddActivity(a) \/ DestroyActivity(a)
  \/ FinishTopActivity \/ FinishAllActivity
  \/ \E c \in Classes : FinishClass(c)
  \/ \E keep \in SUBSET OnStack : keep # {} /\ FinishOther(keep)
  \/ \E classes \in SUBSET Classes : classes # {} /\ FinishOtherClasses(classes)

-----------------------------------------------------------------------------
(* Whatever the order of creations, destructions and group operations, the *)
(* stack holds activities that live and were not asked to finish, each      *)
(* once.  As long as no call was given several things to keep, an activity  *)
(* that left the stack was asked to finish, and what a call was to keep is  *)
(* still there; given several, finishOtherActivity drops those too.         *)
StackTracksLiving ==
  /\ Cardinality(OnStack) = Len(activityStack)
  /\ OnStack \subseteq living \ finished
  /\ ~several => living \ OnStack \subseteq finished /\ kept \subseteq OnStack

=============================================================================
