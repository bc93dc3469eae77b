---------------------------- MODULE MCMetrics ----------------------------
EXTENDS Metrics

CONSTANTS parser, shutdown

\* The parser thread counts a cache hit, ends a timer and flushes at the end
\* of its top-level handle(); the shutdown handler flushes once, in
\* parallel (the atexit flush of _on_exit).
MCThreads == {parser, shutdown}
MCProg == (parser :> <<"hit", "time", "flush">>) @@ (shutdown :> <<"flush">>)
====
