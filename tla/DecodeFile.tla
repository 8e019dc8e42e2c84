----------------------------- MODULE DecodeFile -----------------------------
(* What the decoders of time.c and file.c print: see Lines for the form.   *)
EXTENDS Lines

-----------------------------------------------------------------------------
(* time.c *)

clockflags      == NoZero
adjtimex_modes  == HasZero
adjtimex_status == NoZero
timerfdflags    == NoZero

tprint_timeval32 == Curly(Vals(2))
tprint_timeval   == Curly(Vals(2))

(* NULL, an address when not verbose, the special names UTIME_NOW and      *)
(* UTIME_OMIT (utimensat), the two numbers, or "{...}" if the read fails.  *)
sprinttv         == v \cup tprint_timeval \cup Curly(v)
printtv_bitness  == sprinttv
printtv          == printtv_bitness
sprint_timespec  == v \cup Curly(Vals(2)) \cup Curly(v)
print_timespec   == sprint_timespec

sys_time         == Exit(printnum, printnum)
sys_stime        == Exit(printnum, printnum)
sys_gettimeofday == Exit(printtv ++ printtv, Vals(2))
sys_settimeofday == Entry(printtv ++ printtv)

(* The remaining time is read back only after an interruption: an error. *)
sys_nanosleep    == Call(print_timespec ** sep, v, v \cup print_timespec)

printitv_bitness ==
    v \cup Curly(v)
      \cup Curly((named ** tprint_timeval32) ++ (named ** tprint_timeval32))
      \cup Curly((named ** tprint_timeval) ++ (named ** tprint_timeval))
printitv         == printitv_bitness

sys_getitimer    == Call(printxval ** sep, printitv, v)
sys_setitimer    == Call((printxval ++ printitv) ** sep, printitv, v)

tprint_timex32 ==
    Curly((named ** printflags(adjtimex_modes, TRUE)) ++ Vals(4)
          ++ (named ** printflags(adjtimex_status, TRUE)) ++ Vals(3)
          ++ (named ** tprint_timeval32) ++ Vals(9))
tprint_timex ==
    tprint_timex32 \cup
    Curly((named ** printflags(adjtimex_modes, TRUE)) ++ Vals(4)
          ++ (named ** printflags(adjtimex_status, TRUE)) ++ Vals(3)
          ++ (named ** tprint_timeval) ++ Vals(9))

(* The clock state is named after the result, unless it has no name. *)
do_adjtimex(E)   == Explained(Opt(v), Call(E, v \cup tprint_timex \cup Curly(v), v))
sys_adjtimex     == do_adjtimex(nothing)
sys_clock_adjtime == do_adjtimex(printxval ** sep)

sys_clock_settime == Entry(printxval ++ printtv)
sys_clock_gettime == Call(printxval ** sep, printtv, v)
sys_clock_nanosleep ==
    Call((printxval ++ printflags(clockflags, TRUE) ++ printtv) ** sep, printtv, v)

printsigevent32 ==
    Curly(v) \cup Curly(Vals(3) ++ (Curly(v) \cup Curly(Vals(2))))
printsigevent ==
    printsigevent32
      \cup Curly(v) \cup Curly(Vals(3) ++ (Curly(v) \cup Curly(Vals(2))))

sys_timer_create  == Call((printxval ++ printsigevent) ** sep, v \cup Curly(v), v)
sys_timer_settime ==
    Call((v ++ printflags(clockflags, TRUE) ++ printitv) ** sep, printitv, v)
sys_timer_gettime == Call(v ** sep, printitv, v)

sys_timerfd_create == Entry(printxval ++ printflags(timerfdflags, TRUE))
sys_timerfd_settime ==
    Entry(printfd ++ printflags(timerfdflags, TRUE) ++ printitv ++ printitv)
sys_timerfd_gettime == Entry(printfd ++ printitv)

(* The rest of an ioctl line, after its command: rtc_ioctl prints the      *)
(* argument itself in every case (it returns 1).                           *)
print_rtc == Curly(Vals(9)) \cup Curly(Vals(6) ++ v)
rtc_ioctl ==
    LET wkalrm == v \cup Curly(Vals(2) ++ print_rtc)
    IN  Entry(sep ** (v \cup print_rtc)) \cup Exit(sep ** (v \cup print_rtc), sep ** v)
        \cup Entry(sep ** wkalrm) \cup Exit(sep ** wkalrm, sep ** v)
        \cup Exit(sep ** v, sep ** v)

-----------------------------------------------------------------------------
(* file.c *)

open_mode_flags    == NoZero
access_flags       == HasZero
at_flags           == NoZero
xattrflags         == NoZero
inotify_modes      == NoZero
inotify_init_flags == NoZero
swap_flags         == NoZero

mode == {<<"mode">>}

print_dirfd == ({<<"AT_FDCWD">>} \cup printfd) ** sep

(* The access mode first, then the other flags; after the prefix "flags "  *)
(* that tprint_open_modes skips.                                           *)
sprint_open_modes == {<<"flags">>} \cup ({<<"flags">>} ** bar ** v)
tprint_open_modes == sprint_open_modes

decode_open == printpath ++ (tprint_open_modes \cup (tprint_open_modes ++ mode))
sys_open    == Entry(decode_open)
sys_openat  == Entry(print_dirfd ** decode_open)
sys_creat   == Entry(printpath ++ mode)

decode_access == printpath ++ printflags(access_flags, TRUE)
sys_access    == Entry(decode_access)
sys_faccessat == Entry(print_dirfd ** decode_access)

sys_umask       == Entry(v)
sys_lseek       == Entry(printfd ++ Vals(2))
sys_llseek      == Call((printfd ++ v) ** sep, (v \cup Square(v)) ++ printxval, v ++ printxval)
sys_readahead   == Entry(printfd ++ printllval ++ v)
sys_truncate    == Entry(printpath ++ {<<"length">>})
sys_truncate64  == Entry(printpath ++ {<<"length">>})
sys_ftruncate   == Entry(printfd ++ {<<"length">>})
sys_ftruncate64 == Entry(printfd ++ {<<"length">>})

(* The type and the special bits joined by "|", or one number. *)
sprintmode == v \cup (v ** bar ** v)
sprinttime == v
stat_times == sprinttime ++ sprinttime ++ sprinttime     \* of access, modification, change

makedev == {<<"(", "v", ",", "v", ")">>}

(* What is told of a file: everything, or the mode and the size. *)
realprintstat ==
    LET what == (named ** makedev) \cup v
    IN  Curly((named ** makedev) ++ v ++ sprintmode ++ Vals(5) ++ what ++ stat_times)
        \cup Curly(sprintmode ++ what ++ v)
printstat(err) == v \cup IF err THEN {} ELSE Curly(v) \cup realprintstat
printstat64(err) ==
    LET what == (named ** makedev) \cup v
    IN  printstat(err) \cup
        IF err THEN {}
        ELSE Curly(v)
             \cup Curly((named ** makedev) ++ v ++ sprintmode ++ Vals(5) ++ what ++ stat_times)
             \cup Curly(sprintmode ++ what ++ v)
printoldstat(err) == v \cup IF err THEN {} ELSE Curly(v) \cup realprintstat

sys_stat     == Call(printpath ** sep, printstat(FALSE), printstat(TRUE))
sys_stat64   == Call(printpath ** sep, printstat64(FALSE), printstat64(TRUE))
sys_oldstat  == Call(printpath ** sep, printoldstat(FALSE), printoldstat(TRUE))
sys_fstat    == Call(printfd ** sep, printstat(FALSE), printstat(TRUE))
sys_fstat64  == Call(printfd ** sep, printstat64(FALSE), printstat64(TRUE))
sys_oldfstat == Call(printfd ** sep, printoldstat(FALSE), printoldstat(TRUE))
sys_newfstatat ==
    Call((print_dirfd ** printpath) ** sep,
         printstat64(FALSE) ++ printflags(at_flags, TRUE),
         printstat64(TRUE) ++ printflags(at_flags, TRUE))

sprintfstype == v
printstatfs(err) ==
    v \cup IF err THEN {}
           ELSE Curly(v) \cup
                Curly(sprintfstype ++ Vals(6) ++ (named ** Curly(Vals(2))) ++ Vals(2))
printstatfs64(err) ==
    v \cup IF err THEN {}
           ELSE Curly(v) \cup
                Curly(sprintfstype ++ Vals(6) ++ (named ** Curly(Vals(2))) ++ Vals(3))
printcompat_statfs64(err) ==
    v \cup IF err THEN {}
           ELSE Curly(v) \cup
                Curly(sprintfstype ++ Vals(6) ++ (named ** Curly(Vals(2))) ++ Vals(3))
sys_statfs  == Call(printpath ** sep, printstatfs(FALSE), printstatfs(TRUE))
sys_fstatfs == Call(printfd ** sep, printstatfs(FALSE), printstatfs(TRUE))

(* The size argument says which structure to expect. *)
sys_statfs64 ==
    LET X(err) == printstatfs64(err) \cup printcompat_statfs64(err) \cup Curly(v)
    IN  Call((printpath ++ v) ** sep, X(FALSE), X(TRUE))
sys_fstatfs64 ==
    LET X(err) == printstatfs64(err) \cup printcompat_statfs64(err) \cup Curly(v)
    IN  Call((printfd ++ v) ** sep, X(FALSE), X(TRUE))

sys_chdir     == Entry(printpath)
decode_mkdir  == printpath ++ mode
sys_mkdir     == Entry(decode_mkdir)
sys_mkdirat   == Entry(print_dirfd ** decode_mkdir)
sys_link      == Entry(printpath ++ {<<"path2">>})
sys_linkat    == Entry((print_dirfd ** printpath) ++ (print_dirfd ** printpath)
                       ++ printflags(at_flags, TRUE))
sys_unlinkat  == Entry((print_dirfd ** printpath) ++ printflags(at_flags, TRUE))
sys_symlinkat == Entry(printpath ++ (print_dirfd ** printpath))
sys_renameat  == Entry((print_dirfd ** printpath) ++ (print_dirfd ** printpath))

decode_readlink(E) == Call(E ** printpath ** sep, printstr ++ v, v ++ v)
sys_readlink       == decode_readlink(nothing)
sys_readlinkat     == decode_readlink(print_dirfd)

sys_chown    == Entry(printpath ++ printuid ++ printuid)
sys_fchownat == Entry((print_dirfd ** printpath) ++ printuid ++ printuid
                      ++ printflags(at_flags, TRUE))
sys_fchown   == Entry(printfd ++ printuid ++ printuid)
decode_chmod == printpath ++ mode
sys_chmod    == Entry(decode_chmod)
sys_fchmodat == Entry(print_dirfd ** decode_chmod)
sys_fchmod   == Entry(printfd ++ mode)

decode_utimes ==
    printpath ++ (v \cup Curly(printtv_bitness ++ printtv_bitness))
sys_utimes    == Entry(decode_utimes)
sys_futimesat == Entry(print_dirfd ** decode_utimes)
sys_utimensat == Entry((print_dirfd ** decode_utimes) ++ printflags(at_flags, TRUE))
sys_utime     == Entry(printpath ++ (v \cup Square(sprinttime ++ sprinttime)))

(* The device is shown for character and block devices only. *)
decode_mknod == printpath ++ (sprintmode \cup (sprintmode ++ makedev))
sys_mknod    == Entry(decode_mknod)
sys_mknodat  == Entry(print_dirfd ** decode_mknod)

print_old_dirent == v \cup Curly(Vals(3) ++ (named ** printpathn))
sys_readdir ==
    LET count == nothing \cup (sep ** v)
    IN  Call(printfd ** sep, (v \cup print_old_dirent) ** count, v ** count)

(* One record per entry, separated by a blank, or their number. *)
sys_getdents ==
    LET rec == Curly(Vals(5))
    IN  Call(printfd ** sep,
             Vals(2) \cup ((Curly(nothing \cup rec \cup (rec ** bar ** rec)) \cup v) ++ v),
             Vals(2))
sys_getdents64 ==
    LET rec == Curly(Vals(2) ++ (named ** printxval) ++ Vals(2))
    IN  Call(printfd ** sep,
             Vals(2) \cup ((Curly(nothing \cup rec \cup (rec ** bar ** rec)) \cup v) ++ v),
             Vals(2))

sys_getcwd == Exit(printpathn ++ v, Vals(2))

print_xattr_val == sep ** Vals(2)
sys_setxattr  == Entry(((printpath ++ printstr) ** print_xattr_val)
                       ++ printflags(xattrflags, TRUE))
sys_fsetxattr == Entry(((printfd ++ printstr) ** print_xattr_val)
                       ++ printflags(xattrflags, TRUE))
sys_getxattr  == Both(printpath ++ printstr, print_xattr_val)
sys_fgetxattr == Both(printfd ++ printstr, print_xattr_val)
print_xattr_list(val) == val ++ v
sys_listxattr  == Call(printpath ** sep, print_xattr_list(printstr), print_xattr_list(v))
sys_flistxattr == Call(printfd ** sep, print_xattr_list(printstr), print_xattr_list(v))
sys_removexattr  == Entry(printpath ++ printstr)
sys_fremovexattr == Entry(printfd ++ printstr)

sys_fadvise64    == Entry(printfd ++ printllval ++ v ++ printxval)
sys_fadvise64_64 == Entry(printfd ++ printllval ++ printllval ++ printxval)

sys_inotify_add_watch ==
    Entry(printfd ++ printpath ++ printflags(inotify_modes, TRUE))
sys_inotify_rm_watch  == Entry(printfd ++ v)
sys_inotify_init1     == Entry(printflags(inotify_init_flags, TRUE))

sys_fallocate ==
    Entry(printfd ++ mode ++ {<<"offset">>} ++ {<<"length">>})

(* The priority follows the flags when SWAP_FLAG_PREFER is set. *)
sys_swapon ==
    Entry(printpath ++ (printflags(swap_flags, TRUE)
                        \cup (printflags(swap_flags, TRUE) ** bar ** v)))
=============================================================================
