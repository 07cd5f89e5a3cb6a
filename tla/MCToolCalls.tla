---- MODULE MCToolCalls ----
EXTENDS ToolCalls

\* Rules that overlap: of two limits, of one action only, for every tenant, for
\* every tool, and one that expires.
MCGrants ==
    {[tenant |-> "a", tool |-> "x", level |-> "allow", actions |-> {"read"},
      max |-> 1, expires |-> Never],
     [tenant |-> Star, tool |-> "x", level |-> "allow", actions |-> {Star},
      max |-> 2, expires |-> 0],
     [tenant |-> "a", tool |-> Star, level |-> "allow", actions |-> {Star},
      max |-> NoLimit, expires |-> Never]}

MCPatterns == {<<"a", "x">>, <<Star, "x">>, <<"a", Star>>}
====
