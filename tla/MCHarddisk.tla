----------------------------- MODULE MCHarddisk -----------------------------
(* Harddisk with 2-byte sectors, a 2-sector image and few register values. *)
EXTENDS Harddisk

\* A driver that sets registers and polls, and one that reads the data port.
MCRegisters == Stores \cup {"status"}
MCReading == {"count", "command", "status", "out_data"} \cup Reads

MCLbaByte == {1}
MCCountByte == {1, 2}
MCCommandByte == {ReadSectors, Identify}
MCDeviceBits == {{1, 6}}
MCData == {0, 7}
MCGarbage == {9}
=============================================================================
