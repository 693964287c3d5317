------------------------ MODULE MCEntitlementOverrides ------------------------
(* Small instances of EntitlementOverrides for TLC.                        *)
EXTENDS EntitlementOverrides

EachMetric == [f \in Features |-> Metrics]
OneValue   == [m \in Metrics |-> {3}]
Usable     == [f \in Features |-> [m \in Metrics |-> [minimum |-> 2, headroom |-> 1]]]
SmallPlan  == [m \in Metrics |-> 1]

\* Three periods that overlap.  An override is created over the first, which
\* ends within the clock, or over a future one; an update may give either one
\* that contains the first and ends after the future one has begun.
NowOrLater == {[starts |-> 0, ends |-> 1], [starts |-> 2, ends |-> None]}
Prolonged  == {[starts |-> 0, ends |-> 3]}

=============================================================================
