--------------------------- MODULE MCPlayerSetup ---------------------------
(***************************************************************************)
(* Command lines, files and devices for PlayerSetup.                       *)
(***************************************************************************)
EXTENDS PlayerSetup

MCConfigs ==
  [buffer : {0, 1}, period : {0, 1, 3, 50, 100}, count : {0, 1, 20, 256, 300}]

MCSpecs ==
  [channels : {1, 2}, rate : {0, 7, 10, 1000}, bits : {8, 16, 40}, block : {0, 90}]

\* Devices with periods of all lengths, with long ones and with short ones
\* only, and one that plays little.
MCDevices ==
  {[rates |-> r, channels |-> {1, 2}, bits |-> {8, 16}, periods |-> p,
    rings |-> {1, 20, 400, 6000}] :
      r \in {{7, 10, 1000}, {10}},
      p \in {1 .. 40, {1, 30}, {2, 5, 150}, {100, 220}, {1}}}
=============================================================================
