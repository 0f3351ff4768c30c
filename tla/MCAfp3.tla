-------------------------------- MODULE MCAfp3 --------------------------------
EXTENDS Afp3, TLC

Afp3(mask, tags_ld, tags_st, size, n) ==
  [program |-> "ocxl_afp3", offsetmask |-> mask, tags_ld |-> tags_ld, tags_st |-> tags_st,
   size_ld |-> size, size_st |-> 128, numLoops |-> n]

Latency(size_ping, size_ld, size_st, extra, n) ==
  [program |-> "ocxl_afp3_latency", tags_ld |-> 0, tags_st |-> 7, size_ld |-> size_ld,
   size_st |-> size_st, size_ping |-> size_ping, extra_read |-> extra, iterations |-> n]

\* The defaults, the largest fields and masks at both sides of the buffer's size,
\* a size that is refused, no loop at all; a few pings and pings for ever.
SomeCommandLines ==
  {Afp3(1023, 0, 7, 128, 2), Afp3(1024, 7, 7, 256, 1), Afp3(0, 7, 0, 64, 0), Afp3(1023, 0, 7, 512, 2),
   Latency(8, 64, 64, FALSE, 2), Latency(8, 128, 512, TRUE, 0), Latency(64, 512, 128, FALSE, 2),
   Latency(8, 1024, 64, FALSE, 2)}
===============================================================================
