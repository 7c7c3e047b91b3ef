------------------------------ MODULE MCPipeline ------------------------------
(* Two emeters that send the total power, and a pv and a battery inverter. *)
(* Times have 4 bits and a second has 2 ms; the clock turns over once.     *)
EXTENDS MeasurementPipeline, TLC

MCPhases == {"Total", "L1"}
MCTextKeys == {<<"SoftwareVersion", "">>}
MCElements == <<Positive("Total"), Negative("Total"), <<"SoftwareVersion", "">> >>
MCObisKeys == {Positive("Total"), Negative("Total"), Signed("Total")} \cup MCTextKeys
MCFilters == {{}, {Positive("Total")}, {Positive("Total"), Negative("Total")},
              {Positive("Total")} \cup MCTextKeys, MCObisKeys \ MCTextKeys}
MCReplies(serial) ==
    IF serial = "I1" THEN {DCPower \o ACPower, <<"GridFrequency">> \o ACPower} ELSE {BatteryPower \o <<"BatteryPowerACTotal">>}
Symmetry == Permutations(Emeters)

=============================================================================
