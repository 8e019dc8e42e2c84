----------------------------- MODULE MCRecorder -----------------------------
(***************************************************************************)
(* The parts of alice-strace, and those of the parser of its traces, that  *)
(* share no state, side by side: a behavior is one of the trace line of a  *)
(* call (TraceLine, every call of the tables one at a time, and three in a *)
(* row of a few that end differently) or of one of the other parts, while  *)
(* the rest is idle.                                                       *)
(***************************************************************************)
EXTENDS TraceLine, TraceeMemory, Quoting, Counts, MmapCache, Qualify, PathTrace, Registers,
        IoctlTable, CommandLine, Startup, StackWalk, HostFacts, TracerEnd, Memregions, FdTracker,
        BlockWrites

MCSeveral  == {"pwrite", "close", "exit_group"}
MCSharers  == {"t1", "t2"}
MCBytes    == {0, 34, 44, 49, 92, 97, 7, 30, 200}     \* NUL " , 1 \ a BEL RS and one above 127
MCSeconds  == {0, 1}
MCDTimes   == {tv(0, 0), tv(1, 0)}
MCOverhead == {-1, 2}
MCCodes    == {1, 2}
MCSizes    == {0, 1}
MCNames    == {1, 2}
MCReleases == {0, 2, 3, 6, 255, 302}
MCPages    == {0, 2, 4, 6}
MCInodes   == {1}
MCFds      == {1, 3, 4}
MCTasks    == {"t1", "t2"}
MCFirst    == "t1"

tools == <<mem, copy, quoted, tally, maps, quals, paths, modes, trap, ioc, cl, probe, boot, walk, fact,
           finish>>
trackers == <<map_vars, fd_vars, special>>

(* The trace line, idle. *)
NoLine ==
    /\ pers = 1 /\ opt = AliceOptions /\ hide = FALSE /\ at = "dead" /\ cur = Idle /\ calls = 0
    /\ log = <<>> /\ stackinfo = <<>> /\ dump = <<>>

Parts == {"line", "memory", "quoting", "counts", "maps", "quals", "paths", "modes", "trap", "ioctl",
          "options", "startup", "walk", "facts", "finish", "regions", "descriptors", "blocks"}

RecorderInit ==
    \E part \in Parts :
        /\ IF part = "line"    THEN Init            ELSE NoLine
        /\ IF part = "memory"  THEN MemoryInit      ELSE NoMemory
        /\ IF part = "quoting" THEN QuotingInit     ELSE quoted = NoQuote
        /\ IF part = "counts"  THEN CountsInit      ELSE NoTally
        /\ IF part = "maps"    THEN MapsInit        ELSE MapsAtRest(FALSE)
        /\ IF part = "quals"   THEN QualsInit       ELSE QualsAtRest
        /\ IF part = "paths"   THEN PathsInit       ELSE NoPaths
        /\ IF part = "modes"   THEN ModesInit       ELSE NoModes
        /\ IF part = "trap"    THEN TrapInit        ELSE NoTrap
        /\ IF part = "ioctl"   THEN IoctlInit       ELSE NoIoctl
        /\ IF part = "options" THEN CommandLineInit ELSE cl = NoOptions
        /\ IF part = "startup" THEN StartupInit     ELSE probe = NoProbe /\ boot = NoBoot
        /\ IF part = "walk"    THEN WalkInit        ELSE walk = NoWalk
        /\ IF part = "facts"   THEN FactInit        ELSE fact = NoFact
        /\ IF part = "finish"  THEN FinishInit      ELSE finish = NoFinish
        /\ IF part = "regions" THEN RegionsInit     ELSE RegionsAtRest
        /\ IF part = "descriptors" THEN FdInit      ELSE FdAtRest
        /\ IF part = "blocks"  THEN SpecialInit     ELSE special = NoSpecial

RecorderNext ==
    \/ Next /\ UNCHANGED <<tools, trackers>>
    \/ /\ UNCHANGED <<vars, trackers>>
       /\ \/ /\ MemoryNext
             /\ UNCHANGED <<quoted, tally, maps, quals, paths, modes, trap, ioc,
                            cl, probe, boot, walk, fact, finish>>
          \/ /\ QuotingNext
             /\ UNCHANGED <<mem, copy, tally, maps, quals, paths, modes, trap,
                            ioc, cl, probe, boot, walk, fact, finish>>
          \/ /\ CountsNext
             /\ UNCHANGED <<mem, copy, quoted, maps, quals, paths, modes, trap,
                            ioc, cl, probe, boot, walk, fact, finish>>
          \/ /\ MapsNext
             /\ UNCHANGED <<mem, copy, quoted, tally, quals, paths, modes, trap,
                            ioc, cl, probe, boot, walk, fact, finish>>
          \/ /\ QualsNext
             /\ UNCHANGED <<mem, copy, quoted, tally, maps, paths, modes, trap,
                            ioc, cl, probe, boot, walk, fact, finish>>
          \/ /\ PathsNext
             /\ UNCHANGED <<mem, copy, quoted, tally, maps, quals, modes, trap,
                            ioc, cl, probe, boot, walk, fact, finish>>
          \/ /\ ModesNext
             /\ UNCHANGED <<mem, copy, quoted, tally, maps, quals, paths, trap,
                            ioc, cl, probe, boot, walk, fact, finish>>
          \/ /\ TrapNext
             /\ UNCHANGED <<mem, copy, quoted, tally, maps, quals, paths, modes,
                            ioc, cl, probe, boot, walk, fact, finish>>
          \/ /\ IoctlNext
             /\ UNCHANGED <<mem, copy, quoted, tally, maps, quals, paths, modes,
                            trap, cl, probe, boot, walk, fact, finish>>
          \/ /\ CommandLineNext
             /\ UNCHANGED <<mem, copy, quoted, tally, maps, quals, paths, modes,
                            trap, ioc, probe, boot, walk, fact, finish>>
          \/ /\ StartupNext
             /\ UNCHANGED <<mem, copy, quoted, tally, maps, quals, paths, modes,
                            trap, ioc, cl, walk, fact, finish>>
          \/ /\ WalkNext
             /\ UNCHANGED <<mem, copy, quoted, tally, maps, quals, paths, modes,
                            trap, ioc, cl, probe, boot, fact, finish>>
          \/ /\ FactNext
             /\ UNCHANGED <<mem, copy, quoted, tally, maps, quals, paths, modes,
                            trap, ioc, cl, probe, boot, walk, finish>>
          \/ /\ FinishNext
             /\ UNCHANGED <<mem, copy, quoted, tally, maps, quals, paths, modes,
                            trap, ioc, cl, probe, boot, walk, fact>>
    \/ /\ UNCHANGED <<vars, tools>>
       /\ \/ parsing = "on" /\ RegionsNext /\ UNCHANGED <<fd_vars, special>>
          \/ track.on /\ FdNext /\ UNCHANGED <<map_vars, special>>
          \/ SpecialNext /\ UNCHANGED <<map_vars, fd_vars>>

RecorderSpec == RecorderInit /\ [][RecorderNext]_<<vars, tools, trackers>>

-----------------------------------------------------------------------------
(* A stack trace has the addresses of the frames, in order, each with the  *)
(* file mapped there, and ends; but for a cache that has become stale and  *)
(* frame pointers that lead in a circle.                                   *)
StackTracesRight == StackResolved /\ FramesInOrder /\ WalkEnds

(* What is traced and dumped is what -e and -P ask for, as far as the      *)
(* vectors reach.                                                          *)
FiltersExact == QualifiedExactly /\ PathFilterExact /\ WaitFilterExact

(* A run that starts has a coherent set of options, the kernel's release   *)
(* and the command that PATH leads to.                                     *)
SetUpAsAsked == OptionsCoherent /\ SharedLinesLabelled /\ InterruptAsAsked /\ ReleaseExact /\ CommandFound
=============================================================================
