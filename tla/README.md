# Verification of switchdev-buildroot

This directory holds TLA+ models of the programs that the Marvell switchdev
Buildroot tree puts on an AC5X switch and of kconfig, the configuration system that
decides what an image of it contains, the TLC configurations that check them, and
theorems about them with proofs for TLAPS. Paths below are relative to the repository.

The tree is mostly declarative (Buildroot recipes, kernel configurations, device
trees) around a vendored copy of Buildroot under `dl/`. The behaviour that can go
wrong at run time is in a handful of scripts and one driver, which run
concurrently with one another, with the kernel and with an operator, on a board
whose power can be cut. What can go wrong on the host is in the vendored tree's one
large program: kconfig (`dl/buildroot-2021.08-p3/support/kconfig`, KD below), which
reads the board's defconfig, answers for everything it leaves open, and tells make
what has changed. Both are modelled here.

## 1. The system

### 1.1 Components

| Component | Files | State it keeps | Operations | Module |
|---|---|---|---|---|
| Configuration partition and recovery | `board/{accton,dni}/.../init.d/S89part`, `track_xml.sh`; checksum made by `board/common/ac5x/post-image-trampoline.sh` | XML and checksum on the eMMC partition, `/etc/mvsw/mvsw_platform.{xml,ro}`, the link `/var/log`, the mount | start, stop; the tracker's test, restore, reboot | `ConfigRecovery`, `Recovery` |
| Init and shutdown | Buildroot's `rcS`, `rcK`, `inittab` | the script being run | boot, shutdown | `Services`, `ConfigRecovery` |
| Agent service | `package/cpss/cpss-agent/S90agent` | the running `sw-agentd` | start, stop, restart, debug mode | `Services`; as seen by the recovery in `ConfigRecovery` |
| Driver services | `S69cpss-drivers`, `S70prestera-swdev-drivers`, `S70platform-drivers` | loaded kernel modules | start, stop, restart | `Services` |
| GPIO over I2C driver | `local_sources/platform_drivers/gpio_i2c.c`, maps in `board/marvell/ac5x_rd_trampoline.dts` | the list of lines; the CPLD's registers | get, set, probe, remove | `GpioI2c`, `GpioBank`; probe not modelled |
| Firmware watchdog | `board/{dni,marvell}/.../track_fw_application.sh`, `track_appDemo.sh` | `/core`, the stacks' file, the ring `/var/log/1..9` and its index `ri` | watch, kill, collect a dump | `FwTracker` |
| kconfig: expressions | KD `expr.c`, `expr.h` | trees of conditions | evaluate, negate, simplify, join, compare | `KconfigRules`, `KconfigExpr` |
| kconfig: menus and the parser | KD `zconf.y`, `menu.c`, `symbol.c` (`sym_check_deps`) | entries, properties and symbols of the Kconfig files | the parser's actions, `menu_finalize`, the check for cycles | `KconfigMenu`, `KconfigParse` |
| kconfig: symbols | KD `symbol.c` | values, cached and set, and their flags | calculate, set, invalidate | `KconfigSymbol` |
| kconfig: configuration data | KD `confdata.c`, `menu.c` (visibility) | the lines of a configuration | read, write, minimal configuration, values for all new symbols | `KconfigData` |
| kconfig: configuration files | KD `confdata.c`, `util.c` | `.config`, `.config.old`, the results under `include/`, their times | `conf_write`, `conf_split_config`, `conf_write_autoconf` | `KconfigFiles` |
| kconfig: conf | KD `conf.c` | a pass over the menus, its questions | its modes | `KconfigProcess`, `KconfigConf`, `KconfigTools` |
| kconfig: mconf | KD `mconf.c` | the open menus, the file name | keys in each dialog, search, load, save, exit | `KconfigMconf`, `KconfigTools` |
| kconfig: lxdialog | KD `lxdialog/*.c` | the box on the screen, its cursor and scroll position | every key, resizing | `LxDialog`, `LxMenu`, `LxChecklist`, `LxInput`, `LxText`, `Dialogs` |
| kconfig: other front ends | KD `nconf.c`, `gconf.c`, `qconf.cc` | windows | the same operations through other toolkits | not modelled |
| Tree preparation and builds | `scripts/br2_check.sh`, `build.sh`, `Makefile`, `br2_version` | the extracted and patched Buildroot tree, the link `dl/buildroot` | check, configure, build | not modelled |
| Deployment | `external.mk`, `support/install.sh` | the tree on the TFTP/NFS server | deploy, install | not modelled |
| The rest | `S50frr`, `S10dateFixup`, `S09fixmods`, `S01trackcpu`, `S01pci-mem`, `remap_dump.sh`, `fw_reset`, image assembly, recipes, configurations, the rest of Buildroot | none of their own, or vendored | straight-line commands | not modelled |

### 1.2 How they interact

* `rcS` runs the `S??*` scripts in order, each to its end: drivers (S69, S70),
  then `S89part`, then `S90agent`. `rcK` runs them in reverse with `stop`.
* `S89part` decides which XML the agent will read, and leaves `track_xml.sh`
  running. The tracker and the agent share nothing but the network interface
  `sw1p1`, which the tracker takes for the agent's success. The tracker talks to
  the *next* boot, through the partition and `reboot`.
* `S89part` also moves `/var/log` into the partition. The tracker's own log and the
  watchdog's ring are written there, and the tracker unmounts it.
* The watchdog shares `/core`, `/tmp/stackbacktrace.txt`, the kernel log and the
  ring with every other copy of itself, and nothing locks any of them.
* The GPIO driver is called by one kernel thread per SFP cage, all at once; its only
  shared state is the CPLD behind the bus.
* In kconfig the parser builds the tables, `menu_finalize` changes them once, and from
  then on they are constant. Symbols are calculated on demand from the tables and from
  what the user set; every calculated value is cached until `sym_clear_all_valid`.
  Front ends call `conf_read`, set and ask for values, and call `conf_write`; they
  talk to each other, to their next run and to an editor through the files only.
  Make reads the times of the files that `conf --syncconfig` leaves behind.
* mconf's menus are a stack of C frames, each with its scroll position; lxdialog's
  boxes are functions with static and caller-owned state, which a resize of the
  terminal restarts in the middle (`do_resize`).

### 1.3 What is hard about it

Processes interleave without locks; power can be lost between any two steps, with
writes still in the page cache; decisions are made by fixed timeouts; state left by
an earlier step, script or boot is taken for fresh; the status of failing steps is
ignored. `PROJECT.json` lists the places that matter most with their lines under
`hazards`, and the properties that watch them; section 4 ends with those that no property
watches.

kconfig is sequential, and hard for other reasons: a value depends on the values of
a whole graph of symbols, whose cache must be dropped at just the right moments; reading,
showing and writing each change flags that the others read; the same file is read under
Kconfig files that have changed since; conditions are rewritten by a dozen local rules
that must each keep their meaning; files are replaced one by one by a process that may be
killed between any two, while somebody edits one of them; and a dialog keeps one place in a
text in five variables.

What makes each component correct:

* *Recovery*: the factory XML is never lost and is what the tracker restores; a
  restore is durable; restores do not cycle; a working XML is never replaced; the
  board ends up with its ports; logs always have a place to go.
* *GPIO driver*: a set changes its own line, and the lines that share its register no
  more than it must without a lock; bits that are no line are kept; what a get returns is
  true; every call returns.
* *Watchdog*: a firmware that is complained about does not stay; every core of a
  watched firmware reaches the ring; the ring keeps the last nine dumps; the
  stacks kept with a core are that core's.
* *Services*: after a start or restart the service runs; there is one agent; drivers
  are unloaded in an order that can succeed.
* *kconfig, tables*: a prompt is shown exactly when all it is nested in or depends on
  allows it; reverse dependencies name every reason; the tree keeps the file's order; every
  cycle is reported.
* *kconfig, values*: a cached value is the one the rules give now; an answer is heard,
  and kept by the next run; what is written does not change when read back; a minimal
  configuration says as much as the full one; the programs come to their end and
  lose nothing silently.
* *kconfig, files*: a saved configuration is in `.config` or `.config.old` wherever the
  process dies; what make takes for up to date is; an untouched symbol is unchanged.
* *lxdialog*: the cursor is in the list and the row that is lit is the one that Enter
  takes; the field shows the text
  around the cursor; every line of a text can be reached; a position survives a redraw.

## 2. The plan

In order of importance to a running switch. Modules marked with a star exist.

1. `ConfigRecovery`*: the whole recovery cycle, with rcS, rcK, the tracker, the
   page cache, the operator and power losses, and its abstract specification
   `Recovery`*. Proofs: `ConfigRecovery_proofs`*, with the refinement.
2. `GpioI2c`* and its abstract specification `GpioBank`*, refined with shared
   registers. Proofs: `GpioI2c_proofs`*, with the refinement.
3. `FwTracker`*: the watchdog and its ring of dumps. Proofs: `FwTracker_proofs`*.
4. `Services`*: the agent's and the drivers' services under rcS, rcK and shells:
   signals without waiting, `rmmod` of modules in use, restart. Proofs:
   `Services_proofs`*.
5. `KconfigRules`* and `KconfigExpr`*: the rules of `expr.c`, and the recursion built
   out of them. Proofs, of both: `KconfigExpr_proofs`*.
6. `KconfigMenu`* and `KconfigParse`*: the tables, for every small Kconfig file.
7. `KconfigSymbol`*, `KconfigData`*, `KconfigProcess`*: values and configurations;
   on top of them `KconfigConf`* and `KconfigMconf`*, composed in `KconfigTools`*.
8. `KconfigFiles`*: the files system call by system call. Proofs: `KconfigFiles_proofs`*.
9. `LxDialog`*, `LxMenu`*, `LxChecklist`*, `LxInput`*, `LxText`*, composed in
   `Dialogs`*. Proofs: `LxText_proofs`* (the text box and its recursive functions) and
   `Dialogs_proofs`*.

Not written, in the order in which they would come next:

10. `BuildTree`: extraction and patching with interruption and several builds.
11. `GpioProbe`: parsing the gpio-map into the list that `GpioI2c` takes as a
    constant; failing allocations; node references over bind and unbind.
12. Composition of `ConfigRecovery` with `FwTracker`'s ring, which lies on the
    partition that the recovery's tracker unmounts.
13. `Deploy`: the server's tree under deploys that fail half-way.

## 3. The models

### 3.1 ConfigRecovery and Recovery

One action per line or command of `S89part`, `track_xml.sh`, `S90agent`'s start and
stop, and the part of rcS and rcK around them.

* `rc` is the control point of init and of the script it runs (`mount` ... `spawn`
  are the lines of `S89part start`, `agent` is `S90agent start`, `k...` are the stop
  scripts in rcK's order). An operator who runs `S89part` from a shell uses the same
  control points with `shell` set; `After` returns to the prompt instead of going on.
* `mnt` is the partition as programs see it, `disk` what the eMMC holds, `dirty` the
  files whose last write is only in memory. `Writeback` may happen at any time; a
  `PowerLoss` keeps the old contents of a dirty file or tears it (`Survivors`).
* `etc` is RAM: `.xml` is what the agent reads, `.ro` what the tracker restores.
* A checksum file is the sum's subject plus its *form*, because line 9 of the
  tracker and line 14 of `S89part` differ just in that.
* `trk` gives each tracker its own control point. Several can live in one boot:
  `start-stop-daemon --exec` compares a running process's program with
  `track_xml.sh`, but that program is the shell.
* `restores` counts restores since the last thing that could justify one (an edit
  or a power loss), and saturates at 2.

Abstractions. A reboot is served once the system is up and no hand-run script is in
progress. An operator's edit is one step, and the operators'
shells take turns with `S89part`. The agent does not crash. `fsck`'s verdict is
not looked at, as in the script. The XMLs are model values; `Works` says with which
of them the agent brings up the ports.

`Recovery` says what all this is for, with four variables: the stored XML, the one
that would survive a loss of power, whether a write is pending, and the XML a system
is up with. `ConfigRecovery` implements it (`RecoverySpec`) where the agent is started
by init alone, in time. The stored XML is the partition's as programs see it, the
surviving one the eMMC's; the XML in use is the agent's, until the system starts to go
down (`InUse`): a tracker that wakes up then finds no port, and may restore over a
working XML, which `Recovery` allows when no system is up.

Constants that are assumptions: `Timely` (the boot and a good agent take less than
the tracker's minute), `AutoStart` (no `agentAutoStart=0` on the kernel command
line), `ByHand` (an operator may run `S89part`). Each property and theorem names the
ones it needs.

### 3.2 GpioI2c and GpioBank

`GpioI2c` models `gpio_i2c_get_value` and `gpio_i2c_set_value` with their retry loops,
for any device tree (`gpio_list` is a constant: a sequence of number, address, mask).
A byte is the set of its 1 bits, so `&`, `|` and `~` are set operations. A transfer is
one step; that is what the adapter's lock gives. Between the read and the write of a
set, other clients step. `Owns` gives each client its gpios, as gpiolib does. A read
that failed for good hands the low byte of a negative error code (`ErrBytes`) to its
caller, as the code does. The hardware may move an input bit at any time (`Move`),
and a write leaves input bits alone.

`GpioBank` is what such a driver can promise without a lock: a level per line; a set takes
effect at one moment or is lost; a get is true of one moment; only inputs move by
themselves. At the moment a set takes effect it may change other outputs of its register
(`Beside`), too: `undoes` says which, a call begins with none, and a line gets in only when
another client's set changes it while the call is under way. So an overlap can put a
line back to where it was when the call read it, and no call brings back anything older. If a
read fails for good (`ReadsFail`), a set may change any line beside its own (`Misread`) and a
get may return anything (`Guess`).
`GpioI2c` implements it (`BankSpec`, with the levels computed from the registers and
`undoes` from the bytes on their way, `WouldChange`) for every device tree in which no bit
is two lines and no line is input and output (`SeparateLines`), as in the one of the tree,
whose six cages share each register.

### 3.3 FwTracker

One action per command or group of commands of `track_fw_application.sh`. The
firmware's lives are numbered and a life is its pid. `fw` is `dying` while the kernel
writes the core: the process still exists then, and the script's loop goes on. The
kernel log is a set of complaints that only a loss of power clears. `trace` is the
life whose stacks `/tmp/stackbacktrace.txt` holds, or `None` when the script traced a
process that was gone. The index `ri` has a cached and a durable value; after a loss of
power it is the old one, or empty, and each directory is kept or lost. `Overlap`
says whether the next firmware and script may start while a script is still at work
(uploading, most likely); the script does nothing to prevent it. The run and `RingKept`
take it to be false: with overlap the ring may lose a dump.

`saved` and `killed` are history variables. `track_appDemo.sh` is the same script
without the ring.

Left out: reuse of a pid, wrap-around of the kernel log, and the names of the
archived files (a time stamp in nanoseconds keeps them apart).

### 3.4 Services

One action per command of the scripts `S69`, `S70` (two of them) and `S90`:
`modprobe`, `rmmod`, `sleep` and `start-stop-daemon -K` are a step each,
`start-stop-daemon -S` looks for an agent in one step (`Spawn`) and becomes one in
another (`Exec`). `start`, `stop` and `restart` give the commands of each script, and
`job[p]` is what process p has yet to run of its own. rcS and rcK go through `Order`
with `turn`. There is any number of shells: the boards have a getty on the serial console,
and their configurations (`configs/*trampoline*_defconfig`, `BR2_PACKAGE_PRESTERA_SSH`) an
sshd that admits root and is up before the services of the agent and its drivers. Hence a
shell may run scripts at any time, while rcS and rcK run theirs, too. An agent is a
process that is up, dying after a signal for as long as it likes, or none. It opens
devices while it is up (`holds`) and keeps them until it has ended; `rmmod` refuses a
module that is open or that a loaded module needs, `modprobe` may fail with some of what the
module needs loaded, and the script goes on after either.

`doing` is what each shell was told last. The other history variables name the cases in
which the scripts cannot keep what they promise, as exactly as the properties need:
`raced` (two processes have both found no agent, and neither has started its own yet; it
stays so until a process looks and is alone in that), `hampered` (during this shell's restart
an agent was still there after a sleep of the script, or another process signalled one that
was up), `excused` (drivers of this shell's script whose `modprobe` failed, or which another
process has unloaded since), `quiet` and `hindered` (for `NothingLeftBehind`). `AutoStart` is
an assumption, as before. What a module needs (`Deps`) and what the agent opens (`Uses`) are
not in this tree; the order in which the scripts unload says the former.

Left out: `force-reload` (the same as `restart`), the wording of OK and FAIL, the limit on
core sizes, and `track_agent.sh`, which `S90agent` starts if it is there and the
tree does not have.

### 3.5 kconfig: the tables

`KconfigRules` has the values of expressions and the rules that `expr.c` applies at one
node; `KconfigExpr` has the recursive functions of `expr.c` (`expr_trans_bool`,
`expr_eliminate_eq`, `expr_eliminate_dups` and so on), under their own names. The code
rewrites trees in place; a function here returns the new tree, or the pair of new trees.
The recursions are recursive functions over `Exprs`, the expressions that nest at most
`MaxDepth` deep (`Layer` builds them level by level), and not recursive operators, so that
they can be proved about. Where the code loops over the operands of two chains
(`__expr_eliminate_eq`, `expr_eliminate_dups1`), the recursion visits them in the code's
order and carries on what the earlier pairs have become (`EliminateOne`, `JoinTwo`). Numbers in strings are
what `strtoll` makes of them (`Number`), strings compare as `strcmp` does (`Rank`), and
the difference of two numbers is 64 bits wide (`Wrap`).

`KconfigMenu` holds the parser's actions (`config_entry_start`, `menu_add_dep`,
`choice_start` ...), `menu_finalize` and `sym_check_deps` as functions of the tables `k`:
entries, properties, symbols, and the parser's pointers into them. `KconfigParse` is the
state machine: every step reads one statement or option of a Kconfig file, and
`EndOfFile` finalizes the tables and looks for cycles. Every legal file within the
bounds is a behaviour. `LongExprs` gives the rules of `KconfigExpr` long conditions,
one at a time.

Left out: the lexer, files that include files, help texts, warnings about ill-typed
properties, printing, and memory management.

### 3.6 kconfig: values, conf and mconf

`KconfigSymbol` is `symbol.c`: the table `t` is the part of the symbols that changes,
with the cached value (`curr`), the user's (`def`), visibility and flags. The
calculation (`sym_calc_value`, `sym_calc_choice`, `sym_calc_visibility`) is recursive
as in the code, and changes flags on the way. `KconfigData` reads and writes
configurations; a file is a sequence of lines, a line a symbol and its value.

`KconfigProcess` is what the front ends share: the tables (`Releases`), the files, and
the environment between two processes: other Kconfig files come (`NewRelease`), or `.config`
is edited by hand (`EditByHand`). One front end runs at a time. `KconfigConf` has conf's modes; the
recursion of `conf()` and `check_conf()` over the menus is the stack `work`, and a question
is a step of its own, with any answer. `KconfigMconf` has mconf's functions as a stack of
dialogs, where a step is a key in the topmost dialog and all the code up to the next dialog.
`KconfigTools` composes them. `missed` remembers that mconf has been told to load a name that
has no file, among the names that it may be told (`LoadNames`): conf_read has then set the
change count to 0 and kept the values.

Left out: hex symbols, symbols with a value from the environment, a tristate that is m
(Buildroot has no `MODULES`), the search's regular expressions, `listnewconfig`,
the end of standard input, and mconf's `single_menu_mode`.

### 3.7 kconfig: the files

`KconfigFiles` takes `conf_write`, `conf_split_config` and `conf_write_autoconf`
apart: a step is a file opened, filled, renamed or touched, and the process may die
between any two (`Die`). A file has content and a time; every write is at a later
time than the one before. `mem` is the configuration in memory (what it is, the other
kconfig modules say) and `Derive` what the results say of it. `.config` may be edited at
any time (`EditByHand`), also while syncconfig runs, `make clean` removes the results, and a `Build` compiles what
depends on a touched header, if make takes the results for up to date.

Left out: `KCONFIG_OVERWRITECONFIG`, which the Makefile does not set; failures of single writes;
and a loss of power, against which the code has no `fsync`.

### 3.8 kconfig: the dialogs

One module per kind of box: `LxMenu` (`menubox.c`), `LxChecklist` (`checklist.c`),
`LxInput` (`inputbox.c`) and `LxText` (`textbox.c`), over `LxDialog` (the items of
`util.c`, what the boxes share, and `yesno.c`). An action is a key; the terminal's size may change at any
key. What stands on the screen is state of its own (`rows`, `lit`,
`cells`, `starts`), because the code redraws parts of it: the menu scrolls one row with
`wscrl`, the input box moves by a cell, the text box prints pages. `Dialogs` lets any box
follow another of its kind; boxes of different kinds share nothing but the screen.
conf() keeps a menu's scroll position between calls, also where the item it was at has gone
after `z` or a Load; `OpenMenu` therefore takes the position of the last call or 0, whatever
is selected. A resize draws the menu again with the old `first_item` where the list is not
scrolled (`Draw`), and ends in a null pointer where that leaves rows behind the end of the
list (`KEY_RESIZEDies`). `misled` remembers that such a redraw was possible: on a grown
terminal, or with a scroll position and nothing selected.

Left out: colours, borders and geometry; items that do not fit into a row; a search
opened while a jump of another search is on its way; the end of standard input.

What the modules assume of their constants: a radio list is never empty and a text neither, as
their callers see to; a terminal leaves at least one row, as `MENUBOX_HEIGTH_MIN` sees to for
menus, while a text box has none on a terminal of exactly 8 rows (`TEXTBOX_HEIGTH_MIN`,
`dialog.h:210`), which is left out; and no item begins with a key that moves (`MovingKeys`), as an item is a string and
those are no characters.

## 4. What is checked

| Run | Specification and bounds | Properties | Shows |
|---|---|---|---|
| `recovery` | `FairSpec`; XMLs: factory, one good, one bad; 1 tracker, 2 power losses, 2 operator actions | `FallbackIsFactory`, `AtMostOneRestore`, `RestoreSticks`, `LiveConfigKept`, `RecoverySpec`, `Converges` | the recovery works, and is a `Recovery` |
| `recovery_by_hand` | `Spec`; 2 trackers (symmetric), 1 power loss, 2 operator actions, not `Timely`, no autostart | `LogsHaveAHome` | logs are safe even so |
| `gpio_shared_registers` | `FairSpec`; shared registers, two bits that are no line, 2 tries, reads and writes fail | `CallsReturn`, `ForeignBitsKept`, `BankSpec` | no call hangs; other bits are safe until a read fails for good; the driver is a bank of lines |
| `firmware_watchdog` | `FairSpec`; ring of 2, 1 script at a time, both complaints, 3 lives, 1 power loss | `TypeOK`, `RingKeepsLatest`, `ComplaintIsFatal`, `CrashIsKept` | the watchdog does its work; the ring keeps the latest dumps |
| `services` | `Spec`; the three driver services of a trampoline board and the agent, 1 shell, 2 agent processes, `AutoStart` | `TypeOK`, `NothingLeftBehind` | no module in use is unloaded; rcK leaves nothing but what the agent kept open |
| `service_shells` | `Spec`; a service of two drivers, one of which the agent opens, and the agent; 2 shells, 3 agent processes (symmetric), `AutoStart` | `OneAgent`, `RestartLeavesAgent`, `DriversBack` | shells that work over one another, rcS and rcK get what they ask for, but for the races that the properties name |
| `kconfig_menu` | `Spec`; two bools, a tristate and a choice; files of at most 3 entries, one definition each; long conditions one at a time | `ConditionsPropagate`, `ReasonsAreComplete`, `TreeIsOfFile`, `CyclesAreReported` | what `menu_finalize` makes of a file is what the file says |
| `kconfig_values` | `Spec`; two releases with a select, an imply, a choice, a range and a nested menu; 3 processes, 3 keys in mconf, 4 hand-made files | `ValidIsFresh`, `WrittenIsStable`, `WrittenFollowsRules`, `ConfGetsOn`, `UserIsHeard`, `AnswersAreKept`, `DefconfigIsComplete`, `SilentExitLosesNothing` | values, questions and files agree with the rules, in every mode and order |
| `kconfig_files` | `Spec`; a bool and a string, 5 moments of time | `SavedSurvives`, `UpToDateIsCurrent`, `UntouchedIsUnchanged` | deaths at any step lose no saved configuration and mislead no build; nor do edits, unless they fall between syncconfig's reading and its end |
| `dialogs` | `Spec`; menus of 0, 2 and 7 items on 2, 3 and 5 rows, radio lists of 2 and 5 items, an input of 3 cells and 5 characters, texts of up to 7 lines on 2 and 3 rows | `ListIsShown`, `FieldShowsText`, `TextIsReachable`, `KeysMoveInList`, `KeysTurnText`, `PositionIsKept` | cursor and result agree after any keys and resizes, and the screen with them in every box that no resize has misled |

The type invariants of `ConfigRecovery`, `GpioI2c` and `KconfigFiles` are proved
(section 5) and take no run; those of the functional kconfig modules would repeat
their definitions.

Two further runs show where the code does not do what its own texts say; the
entries under `findings` in `PROJECT.json` quote those texts.

| Run | Property | What happens |
|---|---|---|
| `gpio_overlap` | `LinesAreIndependent` | two sets on one register overlap; setting one cage's line changes another's back |
| `kconfig_stale` | `ValidIsFresh` | an integer outside its range keeps its text; once the range is wide enough, entering that text again changes nothing, although it is accepted (`symbol.c:716`) |

**Why the bounds are enough.** The recovery's cycle is boot, test, restore, boot; two
power losses and two operator actions let a loss or an edit hit each part of a cycle
that is itself the consequence of one. One XML of each kind suffices because the code
compares contents for equality only. Two trackers suffice for `LogsHaveAHome`, as
each reads and writes shared files only. Two clients and one register suffice for a
race of read-modify-write cycles, and two tries tell the last from the others.
A ring of two with three lives wraps from every initial `ri`. `Services` counts nothing:
its states are finite as they are. Two agent processes are what a violation of `OneAgent`
takes; with two shells and init, three processes may each start one. Two shells are one that
is asked about and one that gets in its way, and init is there as a third; two drivers, of
which one may be refused while the other has gone, are a stop that gets half-way. A Kconfig file of three entries has an entry, its child and a sibling, which
is as far as `menu_finalize` looks at once; the long conditions bring every rule of
`expr.c` to bear. `MaxDepth` is 16, deeper than any condition that comes up in these runs: TLC
stops with an error where a recursion is applied to an expression outside `Exprs`. Three processes are a first, which leaves a file, a second under other
Kconfig files, and a third that reads what it wrote; the releases contain every way in
which one symbol's value depends on another. Five moments of time order two edits and
two runs in every way. The lists and texts of the dialogs are longer than two pages,
so that the first, a middle and the last page differ. Every other bound is a
constant of the module and guards the environment's actions only; a system that has
used up its power losses and operator actions may stop, which is why the
configurations of `ConfigRecovery` and `FwTracker` switch the deadlock check off. So do
those of kconfig, whose programs end. Those of `GpioI2c` and `Services` have it on: a
client can always begin a call, and init can always go on.

**Fairness.** `ConfigRecovery`: init, the trackers and the agent's start run to their end
(weak fairness of each process: they are ordinary processes under a fair scheduler, and
each command ends); a board that is off is switched on. Nothing is assumed of the
operator, the power or the page cache. `GpioI2c`: each client's step is weakly fair (a
transfer has a bus timeout, a sleep ends). `FwTracker`: the script's commands end (tftp gives
up) and a core dump ends; nothing is assumed of the firmware.
The kconfig modules assume no fairness: their user may do nothing for ever, and that a
program does get on is the safety property `ConfGetsOn`: conf asks no question twice, and
never lists a choice without the entry that ends the listing.

**Hazards that no property watches.** Some are read off the code and true of it, and no
text of the repository promises better; some lie outside the models.

* `S89part:8`: a second start by hand moves the operator's XML to `mvsw_platform.ro`; a
  failed boot then "restores" that. `track_xml.sh:4,8`: in debug mode the tracker restores a
  minute after boot, and an edit made during its minute is lost. `track_xml.sh:9`: it writes
  the checksum in a form that `S89part` does not compare with, so every boot after a restore
  reports a failure. `track_xml.sh:12`: a factory XML that does not work reboots for ever.
* `gpio_i2c.c:97,116`: a failed read comes back as a level, and a set writes its error code
  into the register. `gpio_i2c.c:147,195`: a probe out of
  memory succeeds with a short list; node references are dropped and kept wrongly.
* `track_fw_application.sh:20,24,34,39`: a reused pid; stacks taken again after the process
  is gone, over the good ones; a core that another life left; two scripts and one core.
* `S90agent:13`: two starts at once, from two shells or a shell and rcS, start two agents;
  `OneAgent` says that nothing else does. `S90agent:32`: after a restart that was too quick for
  the old agent none may be left. `S90agent:23`: OK is reported whatever happened.
  `S69cpss-drivers:7`: FAIL is reported, and the script goes on and succeeds.
* `br2_check.sh:14,17`: an interrupted extraction passes for a complete tree; two builds share
  the link. `external.mk:42`: a deploy that fails half-way leaves a mixture.
* `expr.c:394,1075`: below a negation FOO!=n becomes FOO also where FOO may be m; tristates
  compare as strings. `menu.c:660`: a question about visibility sets a flag. `zconf.y:556`:
  a cycle may be reported without being counted as an error.
* `conf.c:77`: at the end of its input conf asks a refused question for ever.
* `confdata.c:826`: a full disk truncates the new `.config`, and it still takes the old one's
  place. `confdata.c:884`: a bool that becomes a string counts as unchanged.
  `confdata.c:1026`: a `.config` that is edited after syncconfig has read it is older than the
  `auto.conf` that syncconfig writes, so make (`Makefile:593`) uses the old answers until the
  next edit; `UpToDateIsCurrent` excuses these. `confdata.c:995`: two syncconfigs share their
  temporary files. `Makefile:238`: make reads a
  hand-edited `.config` before it is synchronized.
* `mconf.c:913`: loading a file that is not there forgets that there were changes, and
  leaving then asks nothing; `SilentExitLosesNothing` makes an exception of it (`missed`).
  `mconf.c:941`: saving under another name makes that file the one that leaving writes. `mconf.c:372`, `menu.c:716`: keys of search results repeat, or
  are missing. `mconf.c:664,892`: an empty menu opens; help throws typed text away.
* `menubox.c:258,270`: drawn again where the scroll position does not fit any more, on a grown
  terminal or with nothing selected, an unscrolled menu keeps the first row it had: the row
  that is lit shows one item and Enter takes another. Where that row is too near to the end,
  the last rows are none of the list's (`KEY_RESIZEDies`), and menuconfig follows a null pointer,
  although `menubox.c:45` calls it "crash-safe" when "menus change their size on the fly".
  `ListIsShown` and `KeysMoveInList` make an exception of these menus (`misled`) in what they
  say of the screen.
  `checklist.c:202`: after a resize the marked button is not the one that
  acts. `textbox.c:404`: the position divides by the length of the text.

## 5. What is proved

The proofs hold for every value of the constants that satisfies the modules'
`ASSUME`s, in particular for any number of trackers, clients, lines, tries,
directories, power losses and operator actions.

* **`ConfigRecovery_proofs`.** `TypeCorrect` gives `TypeOK`. `LogsKept` needs the
  invariant that a link into the partition with the partition unmounted implies a
  pending reboot, for which the trackers' order umount, reboot counts (`LogsInv`).
  `FallbackKept` and `RestoreKept` assume `~ByHand` and go through `SetAside` (between
  `save` and the next boot, `.ro` is the factory XML and a second `save` is not
  possible) and `Cached` (what is not dirty is equal in memory and on the eMMC).
  `OneRestoreIsEnough` and `WorkingXmlKept` assume in addition `AutoStart`, `Timely`
  and, the former, that the factory XML works; their invariants (`CalmBoot`,
  `NoSecondRestore`) say that a tracker that is past its test in a boot that uses a
  working XML cannot exist. `RecoveryImplemented` is the refinement; it needs in
  addition that no agent runs before `S90agent`, and that from the test of `S89part`
  to `S90agent` the partition stays mounted with the XML that was tested (`BootInv`),
  because no tracker is awake then (`TrackersAsleep`).
* **`GpioI2c_proofs`.** `ForeignBitsSafe`: the bits that are no line are the same in
  the register and in every byte on its way to it, however old (`FreshForeign`).
  It holds of a register until a set goes on after a read of it that failed for
  good (the history variable `misread`).
  `BankImplemented`: the byte on its way has the client's own line at the level asked for
  (`OwnLine`), and every other line of it that differs from the register was changed by a
  set that took effect since, or comes of a misread; every step is then a step of `GpioBank`
  or a stutter. It assumes `SeparateLines`, and neither registers of one's own nor reads
  that succeed.
* **`FwTracker_proofs`.** `RingKept`: the invariant (`RingInv`) says how the ring is
  written: `ri` is the directory of the last dump until the next number is written,
  and dumps less than N apart are that many steps apart on the circle, hence in
  different directories. It assumes that scripts do not overlap.
* **`Services_proofs`.** `TypeCorrect` gives `TypeOK`, which includes that what an agent
  has open stays loaded. `OneAgentKept`: as long as
  no two processes have raced, at most one is between its look and its start, and then
  there is no agent at all (`OneInv`); the others' looks, signals and ends keep that.
  `RestartWorks` follows a restart command by command (`RestartInv`): the signal leaves nobody
  up but those that others start, the second leaves nobody dying, so that the search finds
  one that is up or none. `DriversReturn` holds because a driver of the service either is
  loaded with no `rmmod` of its own script to come, or its `modprobe` is still to come, or it
  is excused (`DriversInv`). None of the three assumes anything of the number of shells or of
  the time an agent takes; `RestartLeavesAgent` itself is about `AutoStart`.
  `NothingIsLeft` assumes that the scripts' orders fit the modules (`OrderlyUnload`), as they
  do here. Its invariant (`DownInv`) accounts for every loaded
  module while rcK works undisturbed: either an `rmmod` of it is still to come, or one was
  refused for the agent's sake and the agent's modules are the only ones left.
* **`KconfigExpr_proofs`, the rules.** Each local rule keeps the value of what it rewrites,
  for all symbols, types and valuations: `YnRuleSound`, `BoolTestRuleSound`,
  `NegationRuleSound`, `JoinOrRuleSound`, `JoinAndRuleSound`, `TransBoolRuleSound`. `Legal`
  says of a valuation what the code sees to: a boolean or tristate has the string of its
  value, and y, m and n have theirs. `JoinAndRuleSound` also needs that a constant's string is
  its name, and no number (`Constants`). `TransBoolRuleSound` needs that no tristate is m, as
  without `MODULES`: the rule makes `FOO` of `FOO!=n`, which is y where FOO is m.
* **`KconfigExpr_proofs`, whole conditions.** The same of the recursive functions of
  `expr.c`, for all conditions: `TransformSound` (with `NegatedSound` for de Morgan's laws),
  `EliminateYnSound`, `TransBoolSound`, `RewriteMSound` (m becomes worth what m && `MODULES`
  is), `EliminateDupsSound`. `EqualMeansEqual` is about a recursion through two functions:
  `expr_eq` calls `expr_eliminate_eq`, which calls `expr_eq` for the operands.
  `EliminateEqSound` says what survives the elimination: the rests compare as the whole
  conditions do, though neither need be worth what its condition was. It holds because two
  chains lose the same operands from both (`Shares`); their rests may then be chains of the
  other kind, and only the order is left (`Ordered`).
  `EliminateDupsSound` needs most. Two operands of a chain are replaced by n (or y) and what
  they join to, inside a tree that earlier joins have changed: `PutValue` says what a chain
  with another operand is worth, `PairKeeps` and `JoinTwoKeeps` that each pair keeps
  it. That the result still is an expression of the bounded depth does not follow from the
  depth of what went in, as an operand may move to a deeper place; it follows from the
  number of its operands and negations (`Size`), which no join increases.

  What `menu_finalize` does with these functions is then `SimplifiedSound`: a condition below
  another is worth the lesser of the two, with m worth what m && `MODULES` is. `NotNoSound`, by
  way of `TransCompareSound`, and `SubmenuSound` are about the test for automatic submenus: an
  entry that is moved below another for what `expr_eliminate_eq` leaves is never shown while
  that other is not. `DependsMeansHidden` says the same of the other test,
  `expr_depends_symbol`. `ValueUsesSymbols`: a condition's value depends on the symbols
  that `expr_contains_symbol` finds, and on no others.

  The proofs go by induction over the layers of `Exprs` (`Induction`, from the
  well-foundedness of `<`; `ExprInduction`, `LayerInduction`, which take a set and not an
  operator, so that the provers can use them); each recursive function has a lemma that it
  satisfies its equation (`TransformDef` and so on). The theorems hold for every `MaxDepth`; those
  that join ask that the condition be small enough for it, as `SimplifiedSound` does with
  `Size(above) + 4 * Size(e) <= MaxDepth + 1`, since rewriting m and transforming may each
  double e. Every `MaxDepth` being allowed, no condition is excluded: the hypothesis says which
  bound is large enough for it. `NotNoSound`, `SubmenuSound` and `TransCompareSound` need
  that the symbols that stand alone in the condition are y, n, or bools and tristates that
  are not m (`Plain`): a string or an undefined symbol is neither y nor n, and m is shown
  though it is not y.
* **`KconfigFiles_proofs`.** The invariant `IInv` carries what a process knows over its
  steps: that the temporary file is complete and newer than the last synchronization when it
  is renamed (`ProcessInv`); that a `.config` no newer than the reading is the one in
  memory (`ReadInv`); which results have been replaced (`DraftInv`), and that all have been when
  `auto.conf`, the last, is (`SyncedInv`); which symbols still differ from what the last
  build saw (`TouchedInv`, `SplitInv`). From these, for all symbols, values and any
  number of runs, deaths and edits: `SavedConfigurationSurvives`,
  `UpToDateMeansCurrent`, `UntouchedMeansUnchanged`. The second excuses a `.config` written
  after the last complete syncconfig had read it and before that one closed its files
  (`synced`), for which it is false: that `.config` is older than `auto.conf`.
* **`LxText_proofs`.** The lemmas behind the text box. `get_lines` and `back_lines` are
  recursive functions; `GetLinesDef` and `BackLinesDef` say that they have the values their
  equations give them, and `SetInduction` is the induction both proofs take. A place in a text is
  measured by the newlines before it (`LinesBefore`): `GetLine` and `BackLine` say how the
  loops of `get_line` and `back_lines` move it, `GetLines` and `BackLines` how a page does,
  `UpdateText` where a search's first drawing ends. The inductive invariant is
  `TextInv` with `PageInv`: `page` is behind the last row, `page_length` is what `back_lines`
  needs to get to the first, `begin_reached` and `end_reached` are true at the ends only, and a
  search never stands below its last page. Five variables hold that place, and each key
  changes some of them; `TextNextInv` goes through the keys one by one.
* **`Dialogs_proofs`.** `InputFieldShowsText`: cursor, window and cells of the input
  box agree (`InputInv`), for every width and length. `TheListIsShown`: for all
  menus, radio lists, scroll positions and terminal sizes the cursor is an item in the list, and
  in a menu that is not `misled` it is visible and the only one lit. The invariant (`ListInv`)
  needs to know where a redraw may begin (`FirstItemInv`): one that leaves the list unscrolled
  begins at the first item, but for menus that are misled, where the code keeps the place of
  the last time (`menubox.c:270`). The cursor stays in the list in those, too.
  `KeysMoveTheCursor` follows from the same invariant key by key; a letter needs in addition
  that the items are those of a menu (`ItemsInv`), so that no letter is a moving key.
  `TextStaysReachable` and `KeysTurnTheText` follow from `TextInv`, for every text, and
  `PositionComesBack` from both invariants: the menu's scroll position and the text's are
  walked again to where they were.

Only model-checked:

* all properties of the runs `kconfig_menu` and `kconfig_values` (`ConditionsPropagate`,
  `ReasonsAreComplete`, `TreeIsOfFile`, `CyclesAreReported`, `ValidIsFresh`,
  `WrittenIsStable`, `WrittenFollowsRules`, `ConfGetsOn` and the rest), which are about
  `KconfigMenu`, `KconfigParse`, `KconfigSymbol`, `KconfigData`, `KconfigConf`,
  `KconfigMconf` and `KconfigTools`. These follow linked entries and the symbols'
  dependencies by RECURSIVE operators, as the code does, over tables that change on the way,
  and the prover cannot use a module that has one. What is proved of `KconfigExpr` is what
  these properties lean on wherever a condition is rewritten;
* the liveness properties (`Converges`, `CallsReturn`, `ComplaintIsFatal`, `CrashIsKept`),
  which need fairness and are beyond the prover.

The violation runs are counterexamples and need no proof.

## 6. What is not modelled

The parts that section 2 lists as not written, what sections 3.1 to 3.8 leave out, and:

* the content of XMLs, device trees, kernel and package configurations: data the
  modelled programs do not look at;
* one-shot scripts without state (`S10dateFixup`, `S09fixmods`, `S01trackcpu`,
  `S01pci-mem`, `remap_dump.sh`, `fw_reset`, `S50frr`), image assembly, log rotation;
* `sw-agentd`, the prestera drivers and the firmware, whose sources are not here:
  external actions stand for what the scripts see of them;
* `nconf.c`, `gconf.c` and `qconf.cc`: their core is the same `symbol.c`, `menu.c` and
  `confdata.c`, and what is their own is drawing in toolkits that are not in the tree;
* kconfig's lexer, its string expansion and regular expressions: character by
  character work that no property here depends on;
* the probe of the GPIO driver, which runs once, alone, before any call;
* the rest of Buildroot, which is vendored.

## 7. Running it

`tlc -config MCConfigRecovery.cfg MCConfigRecovery` and so on; `PROJECT.json` lists the
module of each configuration.
`tlapm X_proofs.tla` checks the proofs of component X.
