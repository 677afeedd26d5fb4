------------------------------ MODULE MCMonitor ------------------------------
(***************************************************************************)
(* What a monitoring cycle is made of, for TLC: the loop with its rates    *)
(* and pushes, the status script, the custom command directory, native     *)
(* commands, disks, rules and histories.  They share no state, so each is  *)
(* explored while the others stand still.                                  *)
(***************************************************************************)
EXTENDS StatusLoop, StatusScript, CustomCmdDir, NativeCommands, DiskTotals, Rules,
        History

VARIABLE part   \* the component that moves

Parts == {"loop", "script", "custom", "native", "disks", "rules", "history"}

Some(set) == CHOOSE x \in set : TRUE

\* The others stand still in one of their initial states.
MonitorInit ==
  /\ part \in Parts
  /\ LoopInit /\ (part # "loop" => live = Some(LiveChoices) /\ native)
  /\ ScriptInit /\ (part # "script" => disabled = {} /\ cmd_dir = NoDirectory)
  /\ Init /\ (part # "custom" => dir = Missing)
  /\ CommandsInit
  /\ DisksInit /\ (part # "disks" => forest = Some(Forests))
  /\ RulesInit /\ (part # "rules" => readings = Some(Readings))
  /\ HistoryInit

MonitorNext ==
  /\ part' = part
  /\ \/ /\ part = "loop" /\ LoopNext
        /\ UNCHANGED <<scriptVars, vars, commandsVars, diskVars, rulesVars, historyVars>>
     \/ /\ part = "script" /\ ScriptNext
        /\ UNCHANGED <<loopVars, vars, commandsVars, diskVars, rulesVars, historyVars>>
     \/ /\ part = "custom" /\ Next
        /\ UNCHANGED <<loopVars, scriptVars, commandsVars, diskVars, rulesVars, historyVars>>
     \/ /\ part = "native" /\ CommandsNext
        /\ UNCHANGED <<loopVars, scriptVars, vars, diskVars, rulesVars, historyVars>>
     \/ /\ part = "disks" /\ DisksNext
        /\ UNCHANGED <<loopVars, scriptVars, vars, commandsVars, rulesVars, historyVars>>
     \/ /\ part = "rules" /\ RulesNext
        /\ UNCHANGED <<loopVars, scriptVars, vars, commandsVars, diskVars, historyVars>>
     \/ /\ part = "history" /\ HistoryNext
        /\ UNCHANGED <<loopVars, scriptVars, vars, commandsVars, diskVars, rulesVars>>

MonitorSpec ==
  /\ MonitorInit
  /\ [][MonitorNext]_<<part, loopVars, scriptVars, vars, commandsVars, diskVars, rulesVars,
                       historyVars>>

-------------------------------------------------------------------------------
(* StatusLoop: extended data every other cycle, paused without viewers, or  *)
(* every third, never paused                                                *)

MCLiveChoices ==
  {[extended_interval_secs |-> 2, idle_pause_enabled |-> TRUE],
   [extended_interval_secs |-> 3, idle_pause_enabled |-> FALSE]}
MCPushList == <<"push">>

-------------------------------------------------------------------------------
(* StatusScript: one command prints nothing, a line or one that is left     *)
(* open; custom ones print what looks like a marker                         *)

MCManifest == <<"sensors", "smart", "battery">>
Line == Text("t")
MCBuiltInOutputs ==
  {[lines |-> <<>>, open |-> FALSE], [lines |-> <<Line>>, open |-> FALSE],
   [lines |-> <<Line>>, open |-> TRUE]}
MCCustomOutputs ==
  {<<>>, <<Line>>, <<cmd_marker("sensors")>>, <<custom_cmd_marker("c"), Line>>}
Entry(order, name) == [order |-> order, name |-> name]
MCDirectories ==
  {{Entry(1, "a"), Entry(2, "b")}, {Entry(1, "a"), Entry(2, "s"), Entry(3, "b")}}

-------------------------------------------------------------------------------
(* CustomCmdDir: two lists that share a name, and the empty one             *)

First == <<<<"n1", "x">>, <<"n2", "x">>>>
Second == <<<<"n1", "y">>>>
MCNames == {"n1", "n2"}
MCTexts == {"x", "y"}
MCLists == {First, Second, <<>>}

-------------------------------------------------------------------------------
(* DiskTotals: a device mounted twice, one whose name is too long for its   *)
(* column, pseudo filesystems; RAID below two disks, subvolumes of one      *)
(* filesystem at two devices                                                *)

Named(name, kind) == [name |-> name, kind |-> kind]
Mount(path, on, long) == [path |-> path, at |-> on, long |-> long]
Sda1 == Named("sda1", "dev")
Vg == Named("vg-long", "dev")
Top == Named("/", "plain")
Nowhere == Named("", "plain")
MCMounts ==
  {Mount(Sda1, Top, FALSE), Mount(Sda1, Named("/bind", "plain"), FALSE),
   Mount(Vg, Named("/home", "plain"), TRUE),
   Mount(Named("tmpfs", "virtual"), Named("/run", "plain"), FALSE),
   Mount(Named("udev", "other"), Named("/dev", "kernel"), FALSE)}
MCSizes == [p \in Paths |-> IF p = Sda1 THEN 2 ELSE IF p = Vg THEN 1 ELSE 0]

Node(name, on, fs, bytes, taken, below) ==
  [path |-> Named(name, "dev"), at |-> on, fs |-> fs, size |-> bytes, used |-> taken,
   children |-> below]
MCForests ==
  {[roots |-> <<1, 2>>,
    node |-> <<Node("sda", Nowhere, NoFs, 0, 0, <<3>>), Node("sdb", Nowhere, NoFs, 0, 0, <<3, 4>>),
               Node("md0", Top, "ext4", 5, 2, <<>>),
               Node("sdb2", Named("/data", "plain"), "btrfs", 3, 1, <<>>)>>],
   [roots |-> <<1, 2>>,
    node |-> <<Node("sda", Top, "btrfs", 4, 1, <<3, 4>>), Node("sdb", Nowhere, NoFs, 0, 0, <<>>),
               Node("sda3", Named("/data", "plain"), "btrfs", 3, 1, <<>>),
               Node("sda2", Nowhere, "swap", 0, 0, <<>>)>>]}

-------------------------------------------------------------------------------
(* Rules: every operator and type, units that fit and ones that do not, and *)
(* readings on either side of each threshold                                *)

Low(letter) == [letter |-> letter, upper |-> FALSE]
Up(letter) == [letter |-> letter, upper |-> TRUE]
Limit(op, number, unit, per_second) ==
  [op |-> op, number |-> number, unit |-> unit, per_second |-> per_second]
Rule(type, matcher, threshold) ==
  [type |-> type, matcher |-> matcher, core |-> 0, threshold |-> threshold]
Percent(op, number) == Limit(op, number, <<Low("%")>>, FALSE)
MCRules ==
  {Rule("cpu", "cpu", Percent(op, 60)) : op \in {"<", "<=", "=", ">=", ">", "==", "!=", ""}}
    \cup {Rule("cpu", "cpuN", Percent(">=", 60)), Rule("memory", "free", Percent("<=", 40)),
          Rule("swap", "used", Percent(">", 60)), Rule("swap", "avail", Percent(">", 1)),
          Rule("disk", "", Limit(">=", 60, <<Low("%"), Low("k")>>, FALSE)),
          Rule("temp", "", Limit(">=", 60, <<Low("c")>>, FALSE)),
          Rule("temperature", "", Limit(">", 60, <<>>, FALSE)),
          Rule("network", "rx", Limit(">", 1, <<Low("k")>>, TRUE)),
          Rule("network", "tx", Limit("<=", 1, <<Up("M")>>, FALSE)),
          Rule("network", "", Limit(">=", 1, <<Up("M"), Up("B")>>, TRUE)),
          Rule("network", "", Limit(">", 1, <<Low("m")>>, TRUE)),
          Rule("load", "", Percent(">", 1))}
MCRuleLists ==
  {{}} \cup {{r} : r \in MCRules}
    \cup {{Rule("cpu", "cpu", Percent("=", 60)), Rule("disk", "", Percent(">", 60))}}
AllAt(x) == [cpu |-> x, cores |-> <<x>>, memory |-> x, swap |-> x, disk |-> x, rx |-> 2, tx |-> 3,
             temperature |-> x]
MCReadings ==
  {AllAt(x) : x \in {59, 60, 61}}
    \cup {[AllAt(60) EXCEPT !.rx = x, !.tx = 2] : x \in {0, 4, 5}}
    \cup {[AllAt(60) EXCEPT !.cores = <<>>, !.temperature = NoReading, !.rx = NoReading],
          [AllAt(60) EXCEPT !.cores = <<NoReading>>]}

-------------------------------------------------------------------------------
(* History: two cores, idle or busy for a second, sometimes not read        *)

Load(a, b) == <<[used |-> a, total |-> 1], [used |-> b, total |-> 1]>>
MCLoads == {Load(0, 0), Load(0, 1)}
MCCoreLists == {<<1, 2>>, <<>>}
MCAsked == {<<1, 1>>, <<3, 2>>, <<3, 5>>}
=============================================================================
