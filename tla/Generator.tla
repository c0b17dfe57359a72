----------------------------- MODULE Generator -----------------------------
(***************************************************************************)
(* The synchronous generator of coro/Generator.h: a consumer that asks for *)
(* the next element, and coroutines that yield elements or whole           *)
(* generators.  The consumer always resumes root.top_, so that the         *)
(* pointers parent_, root_ and top_ decide what it gets.                   *)
(*                                                                         *)
(* bodies is the program: what each generator function yields or throws,   *)
(* statement by statement.  A frame of frames is a running instance of     *)
(* one; frames live and die in the order of a stack, since a nested one is *)
(* a member of the awaiter in the frame of its parent.                     *)
(***************************************************************************)
EXTENDS Naturals, Sequences, SequencesExt

CONSTANT Programs  \* each a sequence of bodies, the first one for the consumer

VARIABLES bodies,
          frames,    \* promise and place of each coroutine; 1 is the root
          running,   \* the frame that runs, 0 while the consumer does
          consumed,  \* what the consumer read
          outcome    \* "going", "end", "exception", or "dropped" by the consumer

vars == <<bodies, frames, running, consumed, outcome>>

(* Statements: co_yield of a value, throw, and co_yield of elements_of(h),   *)
(* with or without a try block around it.  What a generator nests has a      *)
(* later number, which the instances of any nesting that ends can be given.  *)
Statements(g, n) ==
  {[does |-> d] : d \in {"yield", "throw"}}
    \union {[does |-> "nest", g |-> h, catches |-> c] : h \in (g + 1)..n, c \in BOOLEAN}
IsProgram(p) ==
  /\ p # <<>> /\ p \in Seq(Seq(Statements(1, Len(p))))
  /\ \A g \in DOMAIN p : p[g] \in Seq(Statements(g, Len(p)))
GeneratorAssumption == \A program \in Programs : IsProgram(program)

(* A promise: its place in the body, top_, and info_ with parent_, root_ and *)
(* whether except_ holds an exception; parent 0 stands for info_ = nullptr.  *)
Frame(g, self, parent, root) ==
  [gen |-> g, next |-> 1, top |-> self, value |-> <<>>, parent |-> parent, root |-> root,
   except |-> FALSE]

(* begin() on a fresh generator, which resumes it for the first time.        *)
Init ==
  /\ bodies \in Programs
  /\ frames = <<Frame(1, 1, 0, 0)>>
  /\ running = 1
  /\ consumed = <<>>
  /\ outcome = "going"

Body == bodies[frames[running].gen]
AtEnd == frames[running].next > Len(Body)
Statement == Body[frames[running].next]
At(does) == running # 0 /\ ~frames[running].except /\ ~AtEnd /\ Statement.does = does
StepOn(f) == [f EXCEPT ![running].next = @ + 1]

(* yield_value(): the promise points to the element, and the consumer runs.  *)
(* It reads *it, the value of root.top_.                                     *)
YieldValue ==
  /\ At("yield")
  /\ frames' = [StepOn(frames) EXCEPT ![running].value = <<frames[running].gen, frames[running].next>>]
  /\ running' = 0
  /\ consumed' = Append(consumed, frames'[frames[1].top].value)
  /\ UNCHANGED <<bodies, outcome>>

(* operator++ resumes root.top_; or the consumer drops the generator, and    *)
(* the frames are destroyed with it.                                         *)
Increment ==
  /\ running = 0 /\ outcome = "going"
  /\ running' = frames[1].top
  /\ UNCHANGED <<bodies, frames, consumed, outcome>>

Drop ==
  /\ running = 0 /\ outcome = "going"
  /\ frames' = <<>>
  /\ outcome' = "dropped"
  /\ UNCHANGED <<bodies, running, consumed>>

(* Mutant: the root of a nested generator is the one that yields it. *)
NestUnderParent ==
  /\ At("nest")
  /\ LET child == Len(frames) + 1
     IN  /\ frames' = Append([StepOn(frames) EXCEPT ![running].top = child],
                             Frame(Statement.g, child, running, running))
         /\ running' = child
  /\ UNCHANGED <<bodies, consumed, outcome>>

(* NestedAwaiter::await_suspend() *)
NestGenerator ==
  /\ At("nest")
  /\ LET child == Len(frames) + 1
         root == IF frames[running].parent # 0 THEN frames[running].root ELSE running
     IN  /\ frames' = Append([StepOn(frames) EXCEPT ![root].top = child],
                             Frame(Statement.g, child, running, root))
         /\ running' = child
  /\ UNCHANGED <<bodies, consumed, outcome>>

(* FinalAwaiter, also behind unhandled_exception(), which leaves the         *)
(* exception with the awaiter or throws it to the consumer; then the         *)
(* parent's await_resume(), and the nested frame is destroyed.  A parent     *)
(* that does not catch is itself left by the exception (except).             *)
Leave(exception) ==
  LET me == frames[running]
      parent == frames[me.parent]
      caught == bodies[parent.gen][parent.next - 1].catches
  IN  IF me.parent = 0
        THEN /\ outcome' = IF exception THEN "exception" ELSE "end"
             /\ running' = 0 /\ frames' = <<>>
        ELSE /\ frames' = [SubSeq(frames, 1, running - 1)
                             EXCEPT ![me.root].top = me.parent, ![me.parent].except = exception /\ ~caught]
             /\ running' = me.parent /\ UNCHANGED outcome

Finish == running # 0 /\ ~frames[running].except /\ AtEnd /\ Leave(FALSE) /\ UNCHANGED <<bodies, consumed>>
Fail   == /\ running # 0
          /\ frames[running].except \/ (~AtEnd /\ Statement.does = "throw")
          /\ Leave(TRUE)
          /\ UNCHANGED <<bodies, consumed>>

-----------------------------------------------------------------------------
Next == YieldValue \/ Increment \/ Drop \/ NestGenerator \/ Finish \/ Fail

(* What the recursive program means: what the first i statements of a        *)
(* generator yield, in order, and whether an exception leaves them.          *)
Places == UNION {{<<g, i>> : i \in 0..Len(bodies[g])} : g \in DOMAIN bodies}
Meaning[p \in Places] ==
  LET sofar == Meaning[<<p[1], p[2] - 1>>]
      s == bodies[p[1]][p[2]]
      now == IF s.does = "nest" THEN Meaning[<<s.g, Len(bodies[s.g])>>]
             ELSE [seen |-> IF s.does = "yield" THEN <<p>> ELSE <<>>, threw |-> s.does = "throw"]
  IN  IF p[2] = 0 THEN [seen |-> <<>>, threw |-> FALSE]
      ELSE IF sofar.threw THEN sofar
      ELSE [seen |-> sofar.seen \o now.seen, threw |-> now.threw /\ (s.does = "nest" => ~s.catches)]
Whole(g) == Meaning[<<g, Len(bodies[g])>>]

(* However deep the generators are nested, and whichever of them throw, the  *)
(* consumer gets the elements of the recursive program in its order, and the *)
(* end or the exception behind the last one.                                 *)
ElementsInOrder ==
  /\ IsPrefix(consumed, Whole(1).seen)
  /\ outcome \in {"end", "exception"} => /\ consumed = Whole(1).seen
                                         /\ outcome = "exception" <=> Whole(1).threw
=============================================================================
