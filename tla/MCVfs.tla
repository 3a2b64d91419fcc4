-------------------------------- MODULE MCVfs --------------------------------
(* Small instances of Vfs: "/" and "/dev", a tty, a regular file and the   *)
(* calls kmain and the drivers make, in any order.                         *)
EXTENDS Vfs, TLC

Op(op, path) == [op |-> op, path |-> path, flags |-> {}, type |-> "regular",
                 perm |-> {"r", "w"}, dev |-> NoDev, fs |-> "none"]

MountCall(dev, path, fs) == [Op("mount", path) EXCEPT !.dev = dev, !.fs = fs]
MkDir(path) == [Op("mkdir", path) EXCEPT !.type = Dir]
MkNod(path, type, dev) == [Op("mknod", path) EXCEPT !.type = type, !.dev = dev]
Register(dev, path) == [Op("register", path) EXCEPT !.type = "chr", !.dev = dev]
OpenCall(path, flags) == [Op("open", path) EXCEPT !.flags = flags, !.perm = {"w"}]

MCDevice == {"R", "D", "t"}
MCFilesystems == {<<"rootfs", "R">>, <<"devfs", "D">>}
MCName == {"d", "t", "f"}

BootCalls ==
  { MountCall("R", << >>, "rootfs"), MountCall("D", <<"d">>, "devfs"), MkDir(<<"d">>),
    Register("t", <<"d", "t">>), OpenCall(<<"d", "t">>, {"r"}),
    OpenCall(<<"f">>, {"w", "create"}), OpenCall(<<"f">>, {"r"}),
    OpenCall(<<"f">>, {"w", "create", "excl"}), OpenCall(<<"f", "t">>, {"r", "create"}),
    MountCall("D", <<"f">>, "devfs"), MkNod(<<"f">>, "chr", "t"), MkNod(<<"f">>, "fifo", NoDev), Op("stat", <<"f">>) }
(* Enough to see an entry in use evicted.                                  *)
EvictCalls ==
  { MountCall("R", << >>, "rootfs"), MkDir(<<"d">>), OpenCall(<<"d", "t">>, {"w", "create"}),
    OpenCall(<<"f">>, {"w", "create"}), OpenCall(<<"f", "t">>, {"r"}), Op("stat", <<"f">>) }
================================================================================
