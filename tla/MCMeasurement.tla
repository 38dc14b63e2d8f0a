--------------------------- MODULE MCMeasurement ---------------------------
EXTENDS Measurement

\* Two teams with a barrier in one; a team without a barrier, and teams
\* before and after the region of interest; no point at all.
Plain ==
  {<<"on", "par", "join", "par", "bar", "join", "off">>,
   <<"par", "bar", "join", "on", "par", "join", "off", "par", "join">>,
   <<"on", "off">>}

\* A team of one with a barrier; a barrier outside of every team; a barrier
\* after the region of interest.
Odd ==
  {<<"on", "sub", "bar", "join", "par", "join", "off">>,
   <<"on", "bar", "par", "join", "off">>,
   <<"on", "par", "join", "off", "par", "bar", "join">>}

MCThreads == 0..1
MCTexts == Plain \cup Odd
MCPlatforms == {"x86_64", "aarch64", "Unknown"}
=============================================================================
