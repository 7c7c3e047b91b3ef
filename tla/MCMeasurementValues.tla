-------------------------- MODULE MCMeasurementValues --------------------------
(* Buffers of up to 4 elements whose times have 3 bits; a time determines  *)
(* its value, and values differ. size_t has 4 bits.                        *)
EXTENDS MeasurementValues

MCCapacities == {0, 1, 3, 4}
MCSizeMax == 16
MCArgs == {0, 1, 2, 5}
MCValues == {[time |-> t, value |-> (t * t) % 11] : t \in 0..7}

=============================================================================
