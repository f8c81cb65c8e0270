--------------------------- MODULE MCLiveProjection ---------------------------
EXTENDS LiveProjection

\* More batches than the channels hold, the last one partial, with events of each
\* kind.
MCHistories ==
  {<<>>,
   <<"plain", "broken">>,
   <<"plain", "encrypted", "broken", "plain", "shredded", "plain", "plain">>,
   <<"plain", "plain", "plain", "plain", "plain", "plain", "plain", "plain">>}
=============================================================================
