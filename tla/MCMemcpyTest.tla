----------------------------- MODULE MCMemcpyTest -----------------------------
(***************************************************************************)
(* Every kind of work and of completion with one process, and the lock     *)
(* and the counter, which is what processes share, with two.               *)
(***************************************************************************)
EXTENDS MemcpyTest

CONSTANTS p1, p2

Alone ==
  [work : {"copy", "increment", "atomic"}, completion : {"poll", "irq", "wake"},
   reallocate : {FALSE}, shared_mem : {FALSE}, processes : {{p1}}, loop_count : {3}]

Together ==
  [work : {"atomic"}, completion : {"poll"}, reallocate : {FALSE}, shared_mem : {FALSE},
   processes : {{p1, p2}}, loop_count : {1}]

\* Copies between buffers that move, polled and with an interrupt.
Moving ==
  [work : {"copy"}, completion : {"poll", "irq"}, reallocate : {TRUE}, shared_mem : BOOLEAN,
   processes : {{p1}}, loop_count : {3}]

TestOptions == Alone \cup Together \cup Moving

===============================================================================
