------------------------------- MODULE Drives -------------------------------
(***************************************************************************)
(* Logical drives (storage/drives.cpp): parts of storages, found by name.  *)
(*                                                                         *)
(* The table is a map whose comparison, name_compare, hands the addresses  *)
(* of two pairs to strcmp.  A pair begins with the address of a name, so   *)
(* what is compared are the bytes of that address up to the first zero     *)
(* byte, not the characters of the name: two copies of a name are two      *)
(* names, and addresses that agree up to their first zero byte are one.    *)
(* Names lie below 16 MB, as all of the kernel's data does (it is linked   *)
(* at 1 MB), so that every address has a zero byte.                        *)
(***************************************************************************)
EXTENDS DiskStorage

CONSTANTS
  Names,    \* addresses of the names callers pass
  Bytes,    \* by address: its bytes up to the first zero byte
  Offsets,  \* disk_offset callers choose
  Sizes,    \* size_in_sectors callers choose
  NoDrive   \* NULL

ASSUME NamesAssumption == DOMAIN Bytes = Names
ASSUME DriveAssumption == Offsets \subseteq Nat /\ Sizes \subseteq Nat \ {0}

VARIABLES
  device_names,   \* the table: drive or NULL, by the bytes compared
  registered      \* ghost: the drives added and not removed, with their names

drives == <<storage, device_names, registered>>

Drive == [strg : Disks, disk_offset : Offsets, size_in_sectors : Sizes, name : Names]

ASSUME NullAssumption == NoDrive \notin Drive

(* operator[] of the table: an unknown name gets an entry, NULL. *)
Entry(name) == IF Bytes[name] \in DOMAIN device_names THEN device_names[Bytes[name]] ELSE NoDrive
WithEntry(name, d) ==
  [k \in DOMAIN device_names \cup {Bytes[name]} |->
     IF k = Bytes[name] THEN d ELSE device_names[k]]
WithoutEntry(name) == [k \in DOMAIN device_names \ {Bytes[name]} |-> device_names[k]]

DrivesInit ==
  /\ StorageInit
  /\ device_names = [k \in {} |-> NoDrive]
  /\ registered = {}

(* Faulty form: an existing device is replaced. *)
AddDeviceOver(name, d) ==
  /\ device_names' = WithEntry(name, d)
  /\ registered' = registered \cup {d}
  /\ UNCHANGED storage

(* add_device. *)
AddDevice(name, d) ==
  /\ IF Entry(name) # NoDrive THEN UNCHANGED <<device_names, registered>>
     ELSE /\ device_names' = WithEntry(name, d)
          /\ registered' = registered \cup {d}
  /\ UNCHANGED storage

(* remove_device. *)
RemoveDevice(name) ==
  /\ IF Entry(name) = NoDrive
     THEN device_names' = WithEntry(name, NoDrive) /\ UNCHANGED registered
     ELSE /\ device_names' = WithoutEntry(name)
          /\ registered' = registered \ {Entry(name)}
  /\ UNCHANGED storage

(* The check of logical_drive::read and write; the access adds disk_offset *)
(* to an LBA that is already past it.                                      *)
Passes(drive, lba, n) ==
  /\ lba >= drive.disk_offset
  /\ drive.disk_offset + drive.size_in_sectors >= lba + n

(* logical_read and logical_write: the entry is made even for a name that  *)
(* no drive has.  What the driver of the disk does is its own choice.      *)
LogicalRead(path, lba, n) ==
  LET drive == Entry(path) IN
  /\ device_names' = WithEntry(path, drive)
  /\ IF drive # NoDrive /\ Passes(drive, lba, n)
     THEN \E res \in BOOLEAN, part \in SUBSET (1 .. n) :
            Read(drive.strg, drive.disk_offset + lba, n, res, part)
     ELSE UNCHANGED storage
  /\ UNCHANGED registered

LogicalWrite(path, lba, n, v) ==
  LET drive == Entry(path) IN
  /\ device_names' = WithEntry(path, drive)
  /\ IF drive # NoDrive /\ Passes(drive, lba, n)
     THEN \E res \in BOOLEAN, part \in SUBSET (1 .. n) :
            Write(drive.strg, drive.disk_offset + lba, n, v, res, part)
     ELSE UNCHANGED storage
  /\ UNCHANGED registered

DrivesNext ==
  \/ \E d \in Drive : AddDevice(d.name, d)
  \/ \E name \in Names : RemoveDevice(name)
  \/ \E name \in Names, lba \in LBAs, n \in SectorCounts :
       \/ LogicalRead(name, lba, n)
       \/ \E v \in Versions : LogicalWrite(name, lba, n, v)

DrivesSpec == DrivesInit /\ [][DrivesNext]_drives

-----------------------------------------------------------------------------
(* The table leads to every drive that was added and not removed, and to no *)
(* other, whatever unknown names were asked for in between; and no two of   *)
(* them have names that compare equal ("Device alredy exists", line 46).    *)
TableAccounted ==
  /\ {device_names[k] : k \in DOMAIN device_names} \ {NoDrive} = registered
  /\ \A d, e \in registered : Bytes[d.name] = Bytes[e.name] => d = e

(* Both tables grow as the calls say, no more and no less: the cache by the *)
(* pairs its calls allocate (storage.cpp:23, 70-72), the drives by those    *)
(* that were added (drives.cpp:43-60).                                      *)
TablesAccounted == PairsAccounted /\ TableAccounted
=============================================================================
