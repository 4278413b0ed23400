----------------------------- MODULE MCZoneFile -----------------------------
EXTENDS ZoneFile, TLC
CONSTANTS wal, sst
MCKinds == (wal :> {"sparse", "direct"}) @@ (sst :> {"buffered"})
MCFaults == {<<wal, "append">>, <<sst, "persist">>}
MCMaxData == (wal :> 3) @@ (sst :> 2)
=============================================================================
