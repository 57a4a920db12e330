---------------------------- MODULE SessionClaims ----------------------------
(***************************************************************************)
(* What the comments and the documents of the repository say of the v4     *)
(* session and its code does not do.  Each property is refuted by a run.   *)
(***************************************************************************)
EXTENDS AdasSession

\* "Every 10 raw messages, send a summary to Central" (zonal_aggregator.c:89,
\* and MSG_ZONAL_SUMMARY "from Zonal Aggregators to Central Fusion",
\* README.md:56): when a zone starts a new batch, its summary is on its way.
SummaryEveryBatch ==
    [][\A z \in Zones :
          raw_msg_count'[z] < raw_msg_count[z] => z \in summaryq']_vars

\* "Adaptive Throttling" (zonal_aggregator.c:62; "If we receive too many
\* messages in a short burst, drop some", core/zonal_aggregator.c:63 of the
\* built variant): a zone that goes on being served more samples than the
\* limit refuses one some time.
OverloadThrottled ==
    \A z \in Zones : []<>(aggPc[z] = "critical") => <>(dropped_frames[z] > 0)

\* "Fleet generator begins full-speed 100-sensor stream" (README.md:198): with
\* every zone attached to its name the first sweep begins.
StreamBegins == (\A z \in Zones : <>[]Attached(z)) => <>(genPc = "sweep")
=============================================================================
