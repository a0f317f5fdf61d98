----------------------------- MODULE Activations ------------------------------
(***************************************************************************)
(* What a call promises, without the stacks that implement it: a program   *)
(* is a stack of activations, each with its own local variables and its    *)
(* own loop counters, of which only the youngest can change; and when it   *)
(* is over, its caller goes on after the call with everything it had.      *)
(***************************************************************************)
EXTENDS Integers, SequencesExt

VARIABLES
  frames,  \* [func, back, loops, locals], the oldest activation first.
  here     \* The instruction that is executed next: [func, ip].

vars == <<frames, here>>

Active == Last(frames)
Older  == SubSeq(frames, 1, Len(frames) - 1)

\* The length of a call instruction.
CallSize == 2

Init == frames = <<>> /\ here = [func |-> 0, ip |-> 0]

\* A new activation, with no loop open, starts at the first instruction of its
\* function.  What its variables hold is not specified.
Enter ==
  /\ Len(frames') = Len(frames) + 1
  /\ SubSeq(frames', 1, Len(frames)) = frames
  /\ Last(frames').loops = <<>>
  /\ Last(frames').func = here'.func
  /\ here'.ip = 0

Begin == frames = <<>> /\ Enter

CallFrom == /\ frames # <<>>
            /\ Enter
            /\ Last(frames').back = [here EXCEPT !.ip = @ + CallSize]

Return == /\ frames # <<>>
          /\ frames' = Older
          /\ here' = Active.back

\* The youngest activation goes on in its own function, with the counters `loops'
\* and the variables `locals'.
Proceed(loops, locals) ==
  /\ frames' = Append(Older, [Active EXCEPT !.loops = loops, !.locals = locals])
  /\ here'.func = here.func

Within == /\ frames # <<>>
          /\ Proceed(Active.loops, Active.locals)

\* A variable is assigned, of the activation that runs.
Assign == /\ frames # <<>>
          /\ Len(frames') = Len(frames)
          /\ \E i \in DOMAIN Active.locals :
               Proceed(Active.loops,
                       [Active.locals EXCEPT ![i] = Last(frames').locals[i]])

\* A loop is opened above those that are, counts on, or is closed, the innermost
\* first.
OpenLoop == /\ frames # <<>>
            /\ Len(frames') = Len(frames)
            /\ LET opened == Last(frames').loops
               IN  /\ Len(opened) - Len(Active.loops) \in {1, 2}
                   /\ SubSeq(opened, 1, Len(Active.loops)) = Active.loops
                   /\ Proceed(opened, Active.locals)

CountOn == /\ frames # <<>>
           /\ Active.loops # <<>>
           /\ Len(frames') = Len(frames)
           /\ LET counted == Last(frames').loops
              IN  /\ counted # <<>>
                  /\ Proceed([Active.loops EXCEPT ![Len(Active.loops)] = Last(counted)],
                             Active.locals)

CloseLoop == /\ frames # <<>>
             /\ \E n \in {1, 2} :
                  /\ n <= Len(Active.loops)
                  /\ Proceed(SubSeq(Active.loops, 1, Len(Active.loops) - n), Active.locals)

Next == \/ Begin
        \/ CallFrom
        \/ Return
        \/ Within
        \/ Assign
        \/ OpenLoop
        \/ CountOn
        \/ CloseLoop

Spec == Init /\ [][Next]_vars
===============================================================================
