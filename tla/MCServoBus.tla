----------------------------- MODULE MCServoBus -----------------------------
(* Request sets and servo lists for the runs of ServoBus.                  *)
EXTENDS ServoBus, TLC

Op(op) == [op |-> op]

(* One command of every kind, on a bus whose addresses are 0 and 1.        *)
AllKinds ==
  { Op("malformed"), Op("scan"), Op("emergency_stop"), Op("get_state"), Op("health"),
    Op("sync_move"),
    [op |-> "move", id |-> 1], [op |-> "read_reg", id |-> 0], [op |-> "backup", id |-> 1],
    [op |-> "factory_reset", id |-> 0], [op |-> "factory_reset", id |-> 1],
    [op |-> "set_torque", id |-> Broadcast, on |-> 1],
    [op |-> "write_reg", id |-> 1, write |-> Set("HEAD", Image), unlock |-> TRUE],
    [op |-> "write_reg", id |-> 1, write |-> Set("LOCK", 0), unlock |-> FALSE],
    [op |-> "set_id", id |-> 1, new |-> 0], [op |-> "set_id", id |-> 0, new |-> 0],
    [op |-> "set_id", id |-> 0, new |-> Broadcast],
    [op |-> "restore", id |-> 0, include_id |-> TRUE, new |-> 1, torque |-> 1] }

(* The commands that readdress a servo or write its EEPROM, with a scan    *)
(* beside them.  Restores leave the ID byte out, or write the servo's own  *)
(* ID, a free one or one that is taken.                                    *)
Addressing ==
  { Op("scan") }
  \cup [op : {"set_id"}, id : Id, new : Addr]
  \cup [op : {"write_reg"}, id : {Broadcast}, write : {Set("TORQUE", 0)}, unlock : {TRUE}]
  \cup [op : {"restore"}, id : {1}, include_id : {FALSE}, new : {0}, torque : {0}]
  \cup [op : {"restore"}, id : {1}, include_id : {TRUE}, new : Id, torque : {0}]

Scanning == { Op("scan"), Op("emergency_stop"), Op("get_state"), [op |-> "backup", id |-> 1] }

Renaming ==
  { Op("emergency_stop") }
  \cup [op : {"set_torque"}, id : Addr, on : Bit]
  \cup [op : {"set_id"}, id : Id, new : Id]

Resetting == [op : {"factory_reset"}, id : Id]

(* Nothing in Spec names a servo or a task: they are interchangeable.       *)
Interchangeable == Permutations(Servo) \cup Permutations(ScanTask)

BothLists == { << >>, << 0, 1 >> }
OneList == { << 1, 2 >> }

=============================================================================
