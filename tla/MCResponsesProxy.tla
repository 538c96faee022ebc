-------------------------- MODULE MCResponsesProxy --------------------------
\* The bounds of ResponsesProxy for TLC: two fallbacks and two tool calls.
EXTENDS ResponsesProxy

TwoModels == <<"claude-sonnet-5", "claude-haiku-4-5">>
TwoCalls == {1, 2}
=============================================================================
