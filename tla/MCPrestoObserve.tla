--------------------------- MODULE MCPrestoObserve ---------------------------
EXTENDS PrestoObserve

\* Two CPU limits, so that an edit can move the spec off the pod template,
\* and an unparseable one.
LimitsEdit == {500, 1000, Unparseable}
LimitsFixed == {1000}
RequestsAll == {None, 500, Unparseable}
RequestsSet == {None, 500}
UsagesAll == {300, 800}
UuidVal == "1b4e28ba-2fa1-11d2-883f-0016d3cca427"
=============================================================================
