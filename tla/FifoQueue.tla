------------------------------ MODULE FifoQueue ------------------------------
(***************************************************************************)
(* What a processor promises about the coroutines handed to it with goCo   *)
(* and goCoBatch (processor.cc:94-117): they form one first-in-first-out   *)
(* queue, a batch enters it as a whole, and the loop runs them one at a    *)
(* time.  Nothing here says that there are two queues, a lock or an index. *)
(***************************************************************************)
EXTENDS Sequences

CONSTANTS Coroutine, \* the coroutines that can be handed to the processor
          Batches,   \* what one call hands over: sequences of coroutines
          NoCo       \* no coroutine is running out of the queue

VARIABLES q,     \* handed over and not run yet, oldest first
          taken  \* the coroutine that the loop took and is running, or NoCo

fifoVars == <<q, taken>>

FifoInit == q = <<>> /\ taken = NoCo

Put(b) == q' = q \o b /\ UNCHANGED taken

Take == /\ taken = NoCo
        /\ q # <<>>
        /\ taken' = Head(q)
        /\ q' = Tail(q)

Done == taken # NoCo /\ taken' = NoCo /\ UNCHANGED q

FifoNext == Take \/ Done \/ \E b \in Batches : Put(b)

FifoSpec == FifoInit /\ [][FifoNext]_fifoVars
=============================================================================
