----------------------------- MODULE MCAfuSearch -----------------------------
EXTENDS AfuSearch, TLC

\* Two cards with the same AFU, which runs one context on each.
TwoCards ==
  <<[name |-> "memcpy", function |-> "f0", index |-> 0],
    [name |-> "memcpy", function |-> "f1", index |-> 0]>>

OneEach == <<1, 1>>

\* As ocxl_afu_open() asks, and for the second card only.
ByNameOrCard ==
  {[name |-> "memcpy", function |-> ANY, index |-> ANY],
   [name |-> "memcpy", function |-> "f1", index |-> 0]}

\* The environment asks for errors and no traces, the application for the contrary.
ErrorsOnly  == {[trace_all |-> FALSE, verbose_errors_all |-> TRUE, syspath |-> TRUE]}
TracingOnly == {{OCXL_TRACING}}
===============================================================================
