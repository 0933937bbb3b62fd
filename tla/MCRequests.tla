----------------------------- MODULE MCRequests -----------------------------
EXTENDS Requests
CONSTANTS l1, r1, t1, t2, v1, v2, v3

\* Receives of each kind.
Wants(s, t) == [source |-> s, tag |-> t]
EachKind == { Wants(l1, AnyTag), Wants(r1, t1), Wants(AnySource, AnyTag) }

\* Messages from another cluster with and without the tag asked for.
From(q, t) == [src |-> q, tag |-> t]
Sendings == { From(l1, t1), From(r1, t1), From(r1, t2) }

\* More variables than slots; the calls wait for all of them, while the
\* application may start its receives in any.
Arrays == { <<v3, v2, v1>> }
=============================================================================
