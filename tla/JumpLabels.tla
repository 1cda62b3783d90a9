----------------------------- MODULE JumpLabels -----------------------------
(***************************************************************************)
(* What code generation for control flow promises, without lists: every    *)
(* jump of a statement is made for a label, every label gets an address    *)
(* when its statement ends, and a function ends only when each of its      *)
(* jumps has the address of its label.  break and continue are for the     *)
(* labels of the innermost enclosing for, return for the end of the        *)
(* function.  JumpGen implements this module.                              *)
(***************************************************************************)
EXTENDS Integers, Sequences

VARIABLES
  phase,   \* "outside", "body", "epilog" (of a function), "crashed"
  here,    \* the address of the next byte
  nest,    \* the open statements, outermost first
  want,    \* jump -> the label it is for
  bound,   \* label -> its address
  target,  \* jump -> the address it goes to, once that is known
  ret,     \* the label of the end of the current function
  fresh    \* labels handed out so far

vars == <<phase, here, nest, want, bound, target, ret, fresh>>

Put(f, k, v) == [x \in DOMAIN f \cup {k} |-> IF x = k THEN v ELSE f[x]]

\* A jump for label l in the bytes written by the step
Jump(l) == \E s \in here .. here' - 1 : /\ s \notin DOMAIN want
                                        /\ want' = Put(want, s, l)

Resolved == DOMAIN target = DOMAIN want

\* i is the innermost open for
Innermost(i) == /\ nest[i].kind = "for"
                /\ \A j \in i + 1 .. Len(nest) : nest[j].kind # "for"

Last == nest[Len(nest)]
Pop  == SubSeq(nest, 1, Len(nest) - 1)

Init == /\ phase = "outside"
        /\ here = 0 /\ nest = <<>> /\ ret = 0 /\ fresh = 0
        /\ want = <<>> /\ bound = <<>> /\ target = <<>>

Begin == /\ phase = "outside"
         /\ phase' = "body"
         /\ here' >= here
         /\ ret' = fresh
         /\ fresh' = fresh + 1
         /\ UNCHANGED <<nest, want, bound, target>>

Straight == /\ phase = "body"
            /\ here' >= here
            /\ UNCHANGED <<phase, nest, want, bound, target, ret, fresh>>

If == /\ phase = "body"
      /\ Jump(fresh)
      /\ nest' = Append(nest, [kind |-> "if", exit |-> fresh, cont |-> 0, step |-> 0])
      /\ fresh' > fresh
      /\ UNCHANGED <<phase, bound, target, ret>>

Else == /\ phase = "body"
        /\ nest # <<>> /\ Last.kind = "if"
        /\ Jump(fresh)
        /\ bound' = Put(bound, Last.exit, here')
        /\ nest' = Append(Pop, [kind |-> "else", exit |-> fresh, cont |-> 0, step |-> 0])
        /\ fresh' > fresh
        /\ UNCHANGED <<phase, target, ret>>

EndIf == /\ phase = "body"
         /\ nest # <<>> /\ Last.kind \in {"if", "else"}
         /\ bound' = Put(bound, Last.exit, here)
         /\ nest' = Pop
         /\ UNCHANGED <<phase, here, want, target, ret, fresh>>

\* A for may leave by its test (a jump for its exit) and step over its third
\* expression (a jump for a label of its own, at the end of the header).
For == /\ phase = "body"
       /\ here' >= here
       /\ \E step \in here .. here' :
            nest' = Append(nest, [kind |-> "for", exit |-> fresh,
                                  cont |-> fresh + 1, step |-> step])
       /\ DOMAIN want \subseteq DOMAIN want'
       /\ \A s \in DOMAIN want' : IF s \in DOMAIN want THEN want'[s] = want[s]
                                  ELSE /\ s \in here .. here' - 1
                                       /\ want'[s] \in {fresh, fresh + 2}
       /\ bound' \in {bound, Put(bound, fresh + 2, here')}
       /\ fresh' = fresh + 3
       /\ UNCHANGED <<phase, target, ret>>

EndFor == /\ phase = "body"
          /\ nest # <<>> /\ Last.kind = "for"
          /\ here' > here
          /\ bound' = Put(Put(bound, Last.exit, here'), Last.cont, Last.step)
          /\ nest' = Pop
          /\ UNCHANGED <<phase, want, target, ret, fresh>>

Break == /\ phase = "body"
         /\ \E i \in 1..Len(nest) : Innermost(i) /\ Jump(nest[i].exit)
         /\ UNCHANGED <<phase, nest, bound, target, ret, fresh>>

Continue == /\ phase = "body"
            /\ \E i \in 1..Len(nest) : Innermost(i) /\ Jump(nest[i].cont)
            /\ UNCHANGED <<phase, nest, bound, target, ret, fresh>>

Return == /\ phase = "body"
          /\ Jump(ret)
          /\ UNCHANGED <<phase, nest, bound, target, ret, fresh>>

\* break or continue without a for
Stray == /\ phase = "body"
         /\ \A i \in 1..Len(nest) : nest[i].kind # "for"
         /\ phase' = "crashed"
         /\ UNCHANGED <<here, nest, want, bound, target, ret, fresh>>

Close == /\ phase = "body"
         /\ nest = <<>>
         /\ phase' = "epilog"
         /\ bound' = Put(bound, ret, here)
         /\ UNCHANGED <<here, nest, want, target, ret, fresh>>

Finish == /\ phase = "epilog"
          /\ Resolved
          /\ phase' = "outside"
          /\ here' > here
          /\ UNCHANGED <<nest, want, bound, target, ret, fresh>>

\* One jump gets the address of its label.
Resolve == /\ \E s \in DOMAIN want \ DOMAIN target :
                /\ want[s] \in DOMAIN bound
                /\ target' = Put(target, s, bound[want[s]])
           /\ UNCHANGED <<phase, here, nest, want, bound, ret, fresh>>

Next == \/ Begin \/ Straight \/ If \/ Else \/ EndIf \/ For \/ EndFor
        \/ Break \/ Continue \/ Return \/ Stray \/ Close \/ Finish \/ Resolve

Spec == Init /\ [][Next]_vars
=============================================================================
