------------------------------- MODULE Stack -------------------------------
(***************************************************************************)
(* libs/DSA/stack: an array of pointers, the top last.  A stack is the      *)
(* sequence of what its first currentsz slots point to.                     *)
(***************************************************************************)
EXTENDS Naturals, Sequences, SequencesExt

CONSTANT Capacity    \* the capacity given to stack_init

stack_init == <<>>

stack_is_full(stack)  == Len(stack) = Capacity
stack_is_empty(stack) == Len(stack) = 0

(* stack_push when the stack is not full and the element can be allocated.  *)
stack_push(stack, data) == Append(stack, data)

(* stack_pop: the data it returns and the stack it leaves.                  *)
stack_pop_data(stack) == Last(stack)
stack_pop(stack)      == Front(stack)

(* stack_destroy, through stack_clear: what is given to customfree.         *)
stack_destroy(stack) == Range(stack)
=============================================================================
