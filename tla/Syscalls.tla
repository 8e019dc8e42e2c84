------------------------------ MODULE Syscalls ------------------------------
(* The tables that give every system call of a personality its decoder:    *)
(* linux/x86_64/syscallent.h (personality 0), linux/i386/syscallent.h      *)
(* (personality 1) and linux/x32/syscallent.h (personality 2).  An entry   *)
(* has the name the call is printed with.                                  *)
EXTENDS DecodeProcess, DecodeDevices

(* sock.c *)
sys_socketcall == printargs(2)

(* linux/dummy.h: calls decoded like another. *)
sys_acct                   == sys_chdir
sys_chroot                 == sys_chdir
sys_clock_getres           == sys_clock_gettime
sys_delete_module          == sys_open
sys_dup                    == sys_close
sys_fchdir                 == sys_close
sys_fdatasync              == sys_close
sys_fsync                  == sys_close
sys_getegid                == sys_getuid
sys_geteuid                == sys_getuid
sys_getgid                 == sys_getuid
sys_getresgid              == sys_getresuid
sys_lstat                  == sys_stat
sys_lstat64                == sys_stat64
sys_mlock                  == sys_munmap
sys_mq_unlink              == sys_chdir
sys_munlock                == sys_munmap
sys_oldlstat               == sys_oldstat
sys_pivotroot              == sys_link
sys_rename                 == sys_link
sys_rmdir                  == sys_chdir
sys_sched_get_priority_max == sys_sched_get_priority_min
sys_set_robust_list        == sys_munmap
sys_setfsgid               == sys_setfsuid
sys_setgid                 == sys_setuid
sys_setns                  == sys_inotify_rm_watch
sys_setregid               == sys_setreuid
sys_setresgid              == sys_setresuid
sys_swapoff                == sys_chdir
sys_symlink                == sys_link
sys_syncfs                 == sys_close
sys_umount                 == sys_chdir
sys_unlink                 == sys_chdir
sys_uselib                 == sys_chdir

(* linux/dummy.h: calls without a decoder of their own, by the reason it   *)
(* gives.  Their arguments are printed as numbers.                         *)
unfinished(n)       == printargs(n)
machine_specific(n) == printargs(n)
plain_args(n)       == printargs(n)
unimplemented(n)    == printargs(n)
deprecated(n)       == printargs(n)
streams_call(n)     == printargs(n)

-----------------------------------------------------------------------------
sysent0_1 ==
    [read |-> sys_read, write |-> sys_write, open |-> sys_open, close |-> sys_close,
     stat |-> sys_stat, fstat |-> sys_fstat, lstat |-> sys_lstat, poll |-> sys_poll,
     lseek |-> sys_lseek, mmap |-> sys_mmap, mprotect |-> sys_mprotect,
     munmap |-> sys_munmap, brk |-> sys_brk, rt_sigaction |-> sys_rt_sigaction,
     rt_sigprocmask |-> sys_rt_sigprocmask, rt_sigreturn |-> plain_args(0),
     ioctl |-> sys_ioctl, pread |-> sys_pread, pwrite |-> sys_pwrite,
     readv |-> sys_readv, writev |-> sys_writev, access |-> sys_access,
     pipe |-> sys_pipe, select |-> sys_select, sched_yield |-> plain_args(0),
     mremap |-> sys_mremap, msync |-> sys_msync, mincore |-> sys_mincore,
     madvise |-> sys_madvise, shmget |-> sys_shmget, shmat |-> sys_shmat,
     shmctl |-> sys_shmctl, dup |-> sys_dup, dup2 |-> sys_dup2,
     pause |-> plain_args(0), nanosleep |-> sys_nanosleep,
     getitimer |-> sys_getitimer, alarm |-> printargs_lu(1),
     setitimer |-> sys_setitimer, getpid |-> plain_args(0),
     sendfile |-> sys_sendfile64, socket |-> sys_socket, connect |-> sys_connect,
     accept |-> sys_accept, sendto |-> sys_sendto, recvfrom |-> sys_recvfrom,
     sendmsg |-> sys_sendmsg, recvmsg |-> sys_recvmsg, shutdown |-> sys_shutdown,
     bind |-> sys_bind, listen |-> sys_listen, getsockname |-> sys_getsockname,
     getpeername |-> sys_getpeername, socketpair |-> sys_socketpair,
     setsockopt |-> sys_setsockopt, getsockopt |-> sys_getsockopt,
     clone |-> sys_clone, fork |-> sys_fork, vfork |-> sys_vfork,
     execve |-> sys_execve, _exit |-> sys_exit, wait4 |-> sys_wait4,
     kill |-> sys_kill, uname |-> sys_uname, semget |-> sys_semget,
     semop |-> sys_semop, semctl |-> sys_semctl, shmdt |-> sys_shmdt,
     msgget |-> sys_msgget, msgsnd |-> sys_msgsnd, msgrcv |-> sys_msgrcv,
     msgctl |-> sys_msgctl, fcntl |-> sys_fcntl, flock |-> sys_flock,
     fsync |-> sys_fsync, fdatasync |-> sys_fdatasync, truncate |-> sys_truncate,
     ftruncate |-> sys_ftruncate, getdents |-> sys_getdents, getcwd |-> sys_getcwd,
     chdir |-> sys_chdir, fchdir |-> sys_fchdir, rename |-> sys_rename,
     mkdir |-> sys_mkdir, rmdir |-> sys_rmdir, creat |-> sys_creat,
     link |-> sys_link, unlink |-> sys_unlink, symlink |-> sys_symlink,
     readlink |-> sys_readlink, chmod |-> sys_chmod, fchmod |-> sys_fchmod,
     chown |-> sys_chown, fchown |-> sys_fchown, lchown |-> sys_chown,
     umask |-> sys_umask, gettimeofday |-> sys_gettimeofday,
     getrlimit |-> sys_getrlimit, getrusage |-> sys_getrusage,
     sysinfo |-> sys_sysinfo, times |-> sys_times, ptrace |-> sys_ptrace,
     getuid |-> sys_getuid, syslog |-> sys_syslog, getgid |-> sys_getgid]

sysent0_2 ==
    [setuid |-> sys_setuid, setgid |-> sys_setgid, geteuid |-> sys_geteuid,
     getegid |-> sys_getegid, setpgid |-> printargs_lu(2), getppid |-> plain_args(0),
     getpgrp |-> printargs_lu(0), setsid |-> plain_args(0),
     setreuid |-> sys_setreuid, setregid |-> sys_setregid,
     getgroups |-> sys_getgroups, setgroups |-> sys_setgroups,
     setresuid |-> sys_setresuid, getresuid |-> sys_getresuid,
     setresgid |-> sys_setresgid, getresgid |-> sys_getresgid,
     getpgid |-> plain_args(1), setfsuid |-> sys_setfsuid, setfsgid |-> sys_setfsgid,
     getsid |-> printargs_lu(1), capget |-> sys_capget, capset |-> sys_capset,
     rt_sigpending |-> sys_rt_sigpending, rt_sigtimedwait |-> sys_rt_sigtimedwait,
     rt_sigqueueinfo |-> sys_rt_sigqueueinfo, rt_sigsuspend |-> sys_rt_sigsuspend,
     sigaltstack |-> sys_sigaltstack, utime |-> sys_utime, mknod |-> sys_mknod,
     uselib |-> sys_uselib, personality |-> sys_personality, ustat |-> unimplemented(2),
     statfs |-> sys_statfs, fstatfs |-> sys_fstatfs, sysfs |-> unfinished(3),
     getpriority |-> sys_getpriority, setpriority |-> sys_setpriority,
     sched_setparam |-> sys_sched_setparam, sched_getparam |-> sys_sched_getparam,
     sched_setscheduler |-> sys_sched_setscheduler,
     sched_getscheduler |-> sys_sched_getscheduler,
     sched_get_priority_max |-> sys_sched_get_priority_max,
     sched_get_priority_min |-> sys_sched_get_priority_min,
     sched_rr_get_interval |-> sys_sched_rr_get_interval, mlock |-> sys_mlock,
     munlock |-> sys_munlock, mlockall |-> sys_mlockall,
     munlockall |-> plain_args(0), vhangup |-> plain_args(0),
     modify_ldt |-> machine_specific(3), pivot_root |-> sys_pivotroot,
     _sysctl |-> sys_sysctl, prctl |-> sys_prctl, arch_prctl |-> sys_arch_prctl,
     adjtimex |-> sys_adjtimex, setrlimit |-> sys_setrlimit, chroot |-> sys_chroot,
     sync |-> plain_args(0), acct |-> sys_acct, settimeofday |-> sys_settimeofday,
     mount |-> sys_mount, umount |-> sys_umount2, swapon |-> sys_swapon,
     swapoff |-> sys_swapoff, reboot |-> sys_reboot,
     sethostname |-> sys_sethostname, setdomainname |-> sys_setdomainname,
     iopl |-> unfinished(1), ioperm |-> unfinished(3),
     create_module |-> sys_create_module, init_module |-> sys_init_module,
     delete_module |-> sys_delete_module, get_kernel_syms |-> unimplemented(1),
     query_module |-> sys_query_module, quotactl |-> sys_quotactl,
     nfsservctl |-> unimplemented(3), getpmsg |-> streams_call(5),
     putpmsg |-> streams_call(5), afs_syscall |-> unimplemented(5),
     tuxcall |-> unimplemented(3), security |-> unimplemented(3), gettid |-> plain_args(0),
     readahead |-> sys_readahead, setxattr |-> sys_setxattr,
     lsetxattr |-> sys_setxattr, fsetxattr |-> sys_fsetxattr,
     getxattr |-> sys_getxattr, lgetxattr |-> sys_getxattr,
     fgetxattr |-> sys_fgetxattr, listxattr |-> sys_listxattr,
     llistxattr |-> sys_listxattr, flistxattr |-> sys_flistxattr,
     removexattr |-> sys_removexattr, lremovexattr |-> sys_removexattr,
     fremovexattr |-> sys_fremovexattr, tkill |-> sys_kill, time |-> sys_time,
     futex |-> sys_futex, sched_setaffinity |-> sys_sched_setaffinity,
     sched_getaffinity |-> sys_sched_getaffinity, set_thread_area |-> machine_specific(1),
     io_setup |-> sys_io_setup, io_destroy |-> sys_io_destroy,
     io_getevents |-> sys_io_getevents, io_submit |-> sys_io_submit]

sysent0_3 ==
    [io_cancel |-> sys_io_cancel, get_thread_area |-> machine_specific(1),
     lookup_dcookie |-> unfinished(3), epoll_create |-> sys_epoll_create,
     epoll_ctl_old |-> printargs(4), epoll_wait_old |-> printargs(4),
     remap_file_pages |-> sys_remap_file_pages, getdents64 |-> sys_getdents64,
     set_tid_address |-> plain_args(1), restart_syscall |-> sys_restart_syscall,
     semtimedop |-> sys_semtimedop, fadvise64 |-> sys_fadvise64,
     timer_create |-> sys_timer_create, timer_settime |-> sys_timer_settime,
     timer_gettime |-> sys_timer_gettime, timer_getoverrun |-> plain_args(1),
     timer_delete |-> plain_args(1), clock_settime |-> sys_clock_settime,
     clock_gettime |-> sys_clock_gettime, clock_getres |-> sys_clock_getres,
     clock_nanosleep |-> sys_clock_nanosleep, exit_group |-> sys_exit,
     epoll_wait |-> sys_epoll_wait, epoll_ctl |-> sys_epoll_ctl,
     tgkill |-> sys_tgkill, utimes |-> sys_utimes, vserver |-> unimplemented(5),
     mbind |-> sys_mbind, set_mempolicy |-> sys_set_mempolicy,
     get_mempolicy |-> sys_get_mempolicy, mq_open |-> sys_mq_open,
     mq_unlink |-> sys_mq_unlink, mq_timedsend |-> sys_mq_timedsend,
     mq_timedreceive |-> sys_mq_timedreceive, mq_notify |-> sys_mq_notify,
     mq_getsetattr |-> sys_mq_getsetattr, kexec_load |-> unfinished(4),
     waitid |-> sys_waitid, add_key |-> unfinished(5), request_key |-> unfinished(4),
     keyctl |-> unfinished(5), ioprio_set |-> unfinished(3),
     ioprio_get |-> unfinished(2), inotify_init |-> plain_args(0),
     inotify_add_watch |-> sys_inotify_add_watch,
     inotify_rm_watch |-> sys_inotify_rm_watch, migrate_pages |-> sys_migrate_pages,
     openat |-> sys_openat, mkdirat |-> sys_mkdirat, mknodat |-> sys_mknodat,
     fchownat |-> sys_fchownat, futimesat |-> sys_futimesat,
     newfstatat |-> sys_newfstatat, unlinkat |-> sys_unlinkat,
     renameat |-> sys_renameat, linkat |-> sys_linkat, symlinkat |-> sys_symlinkat,
     readlinkat |-> sys_readlinkat, fchmodat |-> sys_fchmodat,
     faccessat |-> sys_faccessat, pselect6 |-> sys_pselect6, ppoll |-> sys_ppoll,
     unshare |-> sys_unshare, set_robust_list |-> sys_set_robust_list,
     get_robust_list |-> sys_get_robust_list, splice |-> sys_splice,
     tee |-> sys_tee, sync_file_range |-> unfinished(4), vmsplice |-> sys_vmsplice,
     move_pages |-> sys_move_pages, utimensat |-> sys_utimensat,
     epoll_pwait |-> sys_epoll_pwait, signalfd |-> sys_signalfd,
     timerfd_create |-> sys_timerfd_create, eventfd |-> sys_eventfd,
     fallocate |-> sys_fallocate, timerfd_settime |-> sys_timerfd_settime,
     timerfd_gettime |-> sys_timerfd_gettime, accept4 |-> sys_accept4,
     signalfd4 |-> sys_signalfd4, eventfd2 |-> sys_eventfd2,
     epoll_create1 |-> sys_epoll_create1, dup3 |-> sys_dup3, pipe2 |-> sys_pipe2,
     inotify_init1 |-> sys_inotify_init1, preadv |-> sys_preadv,
     pwritev |-> sys_pwritev, rt_tgsigqueueinfo |-> sys_rt_tgsigqueueinfo,
     perf_event_open |-> sys_perf_event_open, recvmmsg |-> sys_recvmmsg,
     fanotify_init |-> unfinished(2), fanotify_mark |-> unfinished(5),
     prlimit64 |-> sys_prlimit64, name_to_handle_at |-> unfinished(5),
     open_by_handle_at |-> unfinished(3), clock_adjtime |-> sys_clock_adjtime,
     syncfs |-> sys_syncfs, sendmmsg |-> sys_sendmmsg, setns |-> sys_setns,
     getcpu |-> sys_getcpu, process_vm_readv |-> sys_process_vm_readv,
     process_vm_writev |-> sys_process_vm_writev, kcmp |-> unfinished(5),
     finit_module |-> unfinished(3)]

sysent1_1 ==
    [restart_syscall |-> sys_restart_syscall, _exit |-> sys_exit, fork |-> sys_fork,
     read |-> sys_read, write |-> sys_write, open |-> sys_open, close |-> sys_close,
     waitpid |-> sys_waitpid, creat |-> sys_creat, link |-> sys_link,
     unlink |-> sys_unlink, execve |-> sys_execve, chdir |-> sys_chdir,
     time |-> sys_time, mknod |-> sys_mknod, chmod |-> sys_chmod,
     lchown |-> sys_chown, break |-> unimplemented(0), oldstat |-> sys_oldstat,
     lseek |-> sys_lseek, getpid |-> plain_args(0), mount |-> sys_mount,
     oldumount |-> sys_umount, setuid |-> sys_setuid, getuid |-> sys_getuid,
     stime |-> sys_stime, ptrace |-> sys_ptrace, alarm |-> printargs_lu(1),
     oldfstat |-> sys_oldfstat, pause |-> plain_args(0), utime |-> sys_utime,
     stty |-> unimplemented(2), gtty |-> unimplemented(2), access |-> sys_access,
     nice |-> printargs_ld(1), ftime |-> unimplemented(0), sync |-> plain_args(0),
     kill |-> sys_kill, rename |-> sys_rename, mkdir |-> sys_mkdir,
     rmdir |-> sys_rmdir, dup |-> sys_dup, pipe |-> sys_pipe, times |-> sys_times,
     prof |-> unimplemented(0), brk |-> sys_brk, setgid |-> sys_setgid,
     getgid |-> sys_getgid, signal |-> sys_signal, geteuid |-> sys_geteuid,
     getegid |-> sys_getegid, acct |-> sys_acct, umount |-> sys_umount2,
     lock |-> unimplemented(0), ioctl |-> sys_ioctl, fcntl |-> sys_fcntl,
     mpx |-> unimplemented(0), setpgid |-> printargs_lu(2), ulimit |-> unimplemented(2),
     oldolduname |-> deprecated(1), umask |-> sys_umask, chroot |-> sys_chroot,
     ustat |-> unimplemented(2), dup2 |-> sys_dup2, getppid |-> plain_args(0),
     getpgrp |-> printargs_lu(0), setsid |-> plain_args(0),
     sigaction |-> sys_sigaction, sgetmask |-> sys_siggetmask,
     ssetmask |-> sys_sigsetmask, setreuid |-> sys_setreuid,
     setregid |-> sys_setregid, sigsuspend |-> sys_sigsuspend,
     sigpending |-> sys_sigpending, sethostname |-> sys_sethostname,
     setrlimit |-> sys_setrlimit, old_getrlimit |-> sys_getrlimit,
     getrusage |-> sys_getrusage, gettimeofday |-> sys_gettimeofday,
     settimeofday |-> sys_settimeofday, getgroups |-> sys_getgroups,
     setgroups |-> sys_setgroups, oldselect |-> sys_oldselect,
     symlink |-> sys_symlink, oldlstat |-> sys_oldlstat, readlink |-> sys_readlink,
     uselib |-> sys_uselib, swapon |-> sys_swapon, reboot |-> sys_reboot,
     readdir |-> sys_readdir, old_mmap |-> sys_old_mmap, munmap |-> sys_munmap]

sysent1_2 ==
    [truncate |-> sys_truncate, ftruncate |-> sys_ftruncate, fchmod |-> sys_fchmod,
     fchown |-> sys_fchown, getpriority |-> sys_getpriority,
     setpriority |-> sys_setpriority, profil |-> unimplemented(4),
     statfs |-> sys_statfs, fstatfs |-> sys_fstatfs, ioperm |-> unfinished(3),
     socketcall |-> sys_socketcall, syslog |-> sys_syslog,
     setitimer |-> sys_setitimer, getitimer |-> sys_getitimer, stat |-> sys_stat,
     lstat |-> sys_lstat, fstat |-> sys_fstat, olduname |-> deprecated(1),
     iopl |-> unfinished(1), vhangup |-> plain_args(0), idle |-> plain_args(0),
     vm86old |-> unfinished(1), wait4 |-> sys_wait4, swapoff |-> sys_swapoff,
     sysinfo |-> sys_sysinfo, ipc |-> sys_ipc, fsync |-> sys_fsync,
     sigreturn |-> sys_sigreturn, clone |-> sys_clone,
     setdomainname |-> sys_setdomainname, uname |-> sys_uname,
     modify_ldt |-> machine_specific(3), adjtimex |-> sys_adjtimex,
     mprotect |-> sys_mprotect, sigprocmask |-> sys_sigprocmask,
     create_module |-> sys_create_module, init_module |-> sys_init_module,
     delete_module |-> sys_delete_module, get_kernel_syms |-> unimplemented(1),
     quotactl |-> sys_quotactl, getpgid |-> plain_args(1), fchdir |-> sys_fchdir,
     bdflush |-> deprecated(0), sysfs |-> unfinished(3),
     personality |-> sys_personality, afs_syscall |-> unimplemented(5),
     setfsuid |-> sys_setfsuid, setfsgid |-> sys_setfsgid, _llseek |-> sys_llseek,
     getdents |-> sys_getdents, select |-> sys_select, flock |-> sys_flock,
     msync |-> sys_msync, readv |-> sys_readv, writev |-> sys_writev,
     getsid |-> printargs_lu(1), fdatasync |-> sys_fdatasync,
     _sysctl |-> sys_sysctl, mlock |-> sys_mlock, munlock |-> sys_munlock,
     mlockall |-> sys_mlockall, munlockall |-> plain_args(0),
     sched_setparam |-> sys_sched_setparam, sched_getparam |-> sys_sched_getparam,
     sched_setscheduler |-> sys_sched_setscheduler,
     sched_getscheduler |-> sys_sched_getscheduler, sched_yield |-> plain_args(0),
     sched_get_priority_max |-> sys_sched_get_priority_max,
     sched_get_priority_min |-> sys_sched_get_priority_min,
     sched_rr_get_interval |-> sys_sched_rr_get_interval,
     nanosleep |-> sys_nanosleep, mremap |-> sys_mremap,
     setresuid |-> sys_setresuid, getresuid |-> sys_getresuid,
     vm86 |-> unfinished(5), query_module |-> sys_query_module, poll |-> sys_poll,
     nfsservctl |-> unimplemented(3), setresgid |-> sys_setresgid,
     getresgid |-> sys_getresgid, prctl |-> sys_prctl,
     rt_sigreturn |-> plain_args(0), rt_sigaction |-> sys_rt_sigaction,
     rt_sigprocmask |-> sys_rt_sigprocmask, rt_sigpending |-> sys_rt_sigpending,
     rt_sigtimedwait |-> sys_rt_sigtimedwait,
     rt_sigqueueinfo |-> sys_rt_sigqueueinfo, rt_sigsuspend |-> sys_rt_sigsuspend,
     pread64 |-> sys_pread, pwrite64 |-> sys_pwrite, chown |-> sys_chown,
     getcwd |-> sys_getcwd, capget |-> sys_capget, capset |-> sys_capset,
     sigaltstack |-> sys_sigaltstack, sendfile |-> sys_sendfile,
     getpmsg |-> streams_call(5), putpmsg |-> streams_call(5), vfork |-> sys_vfork,
     getrlimit |-> sys_getrlimit, mmap2 |-> sys_mmap_pgoff,
     truncate64 |-> sys_truncate64, ftruncate64 |-> sys_ftruncate64,
     stat64 |-> sys_stat64, lstat64 |-> sys_lstat64, fstat64 |-> sys_fstat64,
     lchown32 |-> sys_chown, getuid32 |-> sys_getuid, getgid32 |-> sys_getgid,
     geteuid32 |-> sys_geteuid, getegid32 |-> sys_getegid,
     setreuid32 |-> sys_setreuid, setregid32 |-> sys_setregid,
     getgroups32 |-> sys_getgroups32, setgroups32 |-> sys_setgroups32,
     fchown32 |-> sys_fchown, setresuid32 |-> sys_setresuid,
     getresuid32 |-> sys_getresuid]

sysent1_3 ==
    [setresgid32 |-> sys_setresgid, getresgid32 |-> sys_getresgid,
     chown32 |-> sys_chown, setuid32 |-> sys_setuid, setgid32 |-> sys_setgid,
     setfsuid32 |-> sys_setfsuid, setfsgid32 |-> sys_setfsgid,
     pivot_root |-> sys_pivotroot, mincore |-> sys_mincore, madvise |-> sys_madvise,
     getdents64 |-> sys_getdents64, fcntl64 |-> sys_fcntl,
     security |-> unimplemented(5), gettid |-> plain_args(0),
     readahead |-> sys_readahead, setxattr |-> sys_setxattr,
     lsetxattr |-> sys_setxattr, fsetxattr |-> sys_fsetxattr,
     getxattr |-> sys_getxattr, lgetxattr |-> sys_getxattr,
     fgetxattr |-> sys_fgetxattr, listxattr |-> sys_listxattr,
     llistxattr |-> sys_listxattr, flistxattr |-> sys_flistxattr,
     removexattr |-> sys_removexattr, lremovexattr |-> sys_removexattr,
     fremovexattr |-> sys_fremovexattr, tkill |-> sys_kill,
     sendfile64 |-> sys_sendfile64, futex |-> sys_futex,
     sched_setaffinity |-> sys_sched_setaffinity,
     sched_getaffinity |-> sys_sched_getaffinity, set_thread_area |-> machine_specific(1),
     get_thread_area |-> machine_specific(1), io_setup |-> sys_io_setup,
     io_destroy |-> sys_io_destroy, io_getevents |-> sys_io_getevents,
     io_submit |-> sys_io_submit, io_cancel |-> sys_io_cancel,
     fadvise64 |-> sys_fadvise64, exit_group |-> sys_exit,
     lookup_dcookie |-> unfinished(4), epoll_create |-> sys_epoll_create,
     epoll_ctl |-> sys_epoll_ctl, epoll_wait |-> sys_epoll_wait,
     remap_file_pages |-> sys_remap_file_pages, set_tid_address |-> plain_args(1),
     timer_create |-> sys_timer_create, timer_settime |-> sys_timer_settime,
     timer_gettime |-> sys_timer_gettime, timer_getoverrun |-> plain_args(1),
     timer_delete |-> plain_args(1), clock_settime |-> sys_clock_settime,
     clock_gettime |-> sys_clock_gettime, clock_getres |-> sys_clock_getres,
     clock_nanosleep |-> sys_clock_nanosleep, statfs64 |-> sys_statfs64,
     fstatfs64 |-> sys_fstatfs64, tgkill |-> sys_tgkill, utimes |-> sys_utimes,
     fadvise64_64 |-> sys_fadvise64_64, vserver |-> unimplemented(5),
     mbind |-> sys_mbind, get_mempolicy |-> sys_get_mempolicy,
     set_mempolicy |-> sys_set_mempolicy, mq_open |-> sys_mq_open,
     mq_unlink |-> sys_mq_unlink, mq_timedsend |-> sys_mq_timedsend,
     mq_timedreceive |-> sys_mq_timedreceive, mq_notify |-> sys_mq_notify,
     mq_getsetattr |-> sys_mq_getsetattr, kexec_load |-> unfinished(4),
     waitid |-> sys_waitid, add_key |-> unfinished(5), request_key |-> unfinished(4),
     keyctl |-> unfinished(5), ioprio_set |-> unfinished(3),
     ioprio_get |-> unfinished(2), inotify_init |-> plain_args(0),
     inotify_add_watch |-> sys_inotify_add_watch,
     inotify_rm_watch |-> sys_inotify_rm_watch, migrate_pages |-> sys_migrate_pages,
     openat |-> sys_openat, mkdirat |-> sys_mkdirat, mknodat |-> sys_mknodat,
     fchownat |-> sys_fchownat, futimesat |-> sys_futimesat,
     fstatat64 |-> sys_newfstatat, unlinkat |-> sys_unlinkat,
     renameat |-> sys_renameat, linkat |-> sys_linkat, symlinkat |-> sys_symlinkat,
     readlinkat |-> sys_readlinkat, fchmodat |-> sys_fchmodat,
     faccessat |-> sys_faccessat, pselect6 |-> sys_pselect6, ppoll |-> sys_ppoll,
     unshare |-> sys_unshare, set_robust_list |-> sys_set_robust_list,
     get_robust_list |-> sys_get_robust_list, splice |-> sys_splice,
     sync_file_range |-> unfinished(6), tee |-> sys_tee, vmsplice |-> sys_vmsplice,
     move_pages |-> sys_move_pages, getcpu |-> sys_getcpu,
     epoll_pwait |-> sys_epoll_pwait, utimensat |-> sys_utimensat,
     signalfd |-> sys_signalfd, timerfd_create |-> sys_timerfd_create,
     eventfd |-> sys_eventfd, fallocate |-> sys_fallocate,
     timerfd_settime |-> sys_timerfd_settime,
     timerfd_gettime |-> sys_timerfd_gettime, signalfd4 |-> sys_signalfd4,
     eventfd2 |-> sys_eventfd2, epoll_create1 |-> sys_epoll_create1]

sysent1_4 ==
    [dup3 |-> sys_dup3, pipe2 |-> sys_pipe2, inotify_init1 |-> sys_inotify_init1,
     preadv |-> sys_preadv, pwritev |-> sys_pwritev,
     rt_tgsigqueueinfo |-> sys_rt_tgsigqueueinfo,
     perf_event_open |-> sys_perf_event_open, recvmmsg |-> sys_recvmmsg,
     fanotify_init |-> unfinished(2), fanotify_mark |-> unfinished(5),
     prlimit64 |-> sys_prlimit64, name_to_handle_at |-> unfinished(5),
     open_by_handle_at |-> unfinished(3), clock_adjtime |-> sys_clock_adjtime,
     syncfs |-> sys_syncfs, sendmmsg |-> sys_sendmmsg, setns |-> sys_setns,
     process_vm_readv |-> sys_process_vm_readv,
     process_vm_writev |-> sys_process_vm_writev, kcmp |-> unfinished(5),
     finit_module |-> unfinished(3), socket_subcall |-> printargs(6),
     socket |-> sys_socket, bind |-> sys_bind, connect |-> sys_connect,
     listen |-> sys_listen, accept |-> sys_accept, getsockname |-> sys_getsockname,
     getpeername |-> sys_getpeername, socketpair |-> sys_socketpair,
     send |-> sys_send, recv |-> sys_recv, sendto |-> sys_sendto,
     recvfrom |-> sys_recvfrom, shutdown |-> sys_shutdown,
     setsockopt |-> sys_setsockopt, getsockopt |-> sys_getsockopt,
     sendmsg |-> sys_sendmsg, recvmsg |-> sys_recvmsg, accept4 |-> sys_accept4,
     ipc_subcall |-> printargs(4), semop |-> sys_semop, semget |-> sys_semget,
     semctl |-> sys_semctl, semtimedop |-> sys_semtimedop, msgsnd |-> sys_msgsnd,
     msgrcv |-> sys_msgrcv, msgget |-> sys_msgget, msgctl |-> sys_msgctl,
     shmat |-> sys_shmat, shmdt |-> sys_shmdt, shmget |-> sys_shmget,
     shmctl |-> sys_shmctl]

-----------------------------------------------------------------------------
(* The x32 table has the rows of the x86_64 table, except that a call      *)
(* which takes a structure with pointers or longs in it is printed raw     *)
(* there, under its name with 64: in front (compat_64, with the number of  *)
(* arguments).  The x32 version of such a call has a row from 512 on.      *)
compat_64 ==
    [rt_sigaction |-> 4, rt_sigreturn |-> 0, ioctl |-> 3, readv |-> 3, writev |-> 3,
     recvfrom |-> 6, sendmsg |-> 3, recvmsg |-> 5, setsockopt |-> 5,
     getsockopt |-> 5, execve |-> 3, ptrace |-> 4, rt_sigpending |-> 2,
     rt_sigtimedwait |-> 4, rt_sigqueueinfo |-> 3, sigaltstack |-> 2, uselib |-> 1,
     _sysctl |-> 1, create_module |-> 2, get_kernel_syms |-> 1, query_module |-> 5,
     nfsservctl |-> 3, set_thread_area |-> 1, get_thread_area |-> 1,
     epoll_ctl_old |-> 4, epoll_wait_old |-> 4, timer_create |-> 3, vserver |-> 5,
     mq_notify |-> 2, kexec_load |-> 4, waitid |-> 5, set_robust_list |-> 2,
     get_robust_list |-> 3, vmsplice |-> 4, move_pages |-> 6, preadv |-> 4,
     pwritev |-> 4, rt_tgsigqueueinfo |-> 4, recvmmsg |-> 5, sendmmsg |-> 4,
     process_vm_readv |-> 6, process_vm_writev |-> 6]

x32_of(table) == [n \in DOMAIN table \ DOMAIN compat_64 |-> table[n]]
sysent2_1 == [truncate |-> sys_truncate64, ftruncate |-> sys_ftruncate64] @@ x32_of(sysent0_1)
sysent2_2 == x32_of(sysent0_2)
sysent2_3 == [lookup_dcookie |-> unfinished(4), fadvise64 |-> sys_fadvise64_64] @@ x32_of(sysent0_3)

sysent2_4 ==
    [rt_sigaction |-> sys_rt_sigaction, rt_sigreturn |-> plain_args(0),
     ioctl |-> sys_ioctl, readv |-> sys_readv, writev |-> sys_writev,
     recvfrom |-> sys_recvfrom, sendmsg |-> sys_sendmsg, recvmsg |-> sys_recvmsg,
     execve |-> sys_execve, ptrace |-> sys_ptrace,
     rt_sigpending |-> sys_rt_sigpending, rt_sigtimedwait |-> sys_rt_sigtimedwait,
     rt_sigqueueinfo |-> sys_rt_sigqueueinfo, sigaltstack |-> sys_sigaltstack,
     timer_create |-> sys_timer_create, mq_notify |-> sys_mq_notify,
     kexec_load |-> unfinished(4), waitid |-> sys_waitid,
     set_robust_list |-> sys_set_robust_list,
     get_robust_list |-> sys_get_robust_list, vmsplice |-> sys_vmsplice,
     move_pages |-> sys_move_pages, preadv |-> sys_preadv, pwritev |-> sys_pwritev,
     rt_tgsigqueueinfo |-> sys_rt_tgsigqueueinfo, recvmmsg |-> sys_recvmmsg,
     sendmmsg |-> sys_sendmmsg, process_vm_readv |-> sys_process_vm_readv,
     process_vm_writev |-> sys_process_vm_writev, setsockopt |-> sys_setsockopt,
     getsockopt |-> sys_getsockopt]

-----------------------------------------------------------------------------
(* The decoders of the traced program's personality; one row stands for    *)
(* all of compat_64.                                                       *)
sysent == <<sysent0_1 @@ sysent0_2 @@ sysent0_3,
            sysent1_1 @@ sysent1_2 @@ sysent1_3 @@ sysent1_4,
            sysent2_1 @@ sysent2_2 @@ sysent2_3 @@ sysent2_4
              @@ ("64:" :> UNION {printargs(compat_64[n]) : n \in DOMAIN compat_64})>>
=============================================================================
