SPECIFICATION FairSpec
CONSTANTS
  Self = 3
  Sources = {1, 2}
  Dests = {3, 5, 6, 9}
  BlockIds = {0, 1}
  NextHop <- MCNextHop
  Endpoints = {3, 4, 5}
  DrainMax = 2
  MaxRecv = 3
INVARIANTS
  TypeOK
  NoBlockedQueued
  EveryDatagramCountedOnce
  QueueAccounted
  HeartbeatIsACut
PROPERTIES
  BlockedSourceGoesNowhere
  FirewallSpec
  BacklogReportedCleared
