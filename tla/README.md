# A verification project for the SiFi framework

The SiFi framework reads the data of a scintillating-fibre detector event by
event, turns raw signals into calibrated ones, into hits and clusters, and
writes everything to a ROOT tree. It is a single-threaded C++ program; what
makes it hard to test is not concurrency but *protocol*: objects whose meaning
changes with the calls made before (a category before and after compression),
sources that look ahead, loops over lists that grow while they are scanned,
tables that are rewritten before they are looked up.

This directory has TLA+ modules for the parts where that matters, TLC
configurations that check them exhaustively on small instances, and proofs,
checked by TLAPS, for every size.

## 1. The system

| part | state it keeps | operations | hard behaviour |
|---|---|---|---|
| `SCategory`, `SCategoryIndex` | `TClonesArray` of objects, map position to slot, compressed and writable flags | `getSlot`, `getNewSlot`, `getObject` by locator and by number, `compress`, `clear` | position and slot are one number before compression and two after it; reading by number compresses |
| `SiFi` | categories, registry, sources, output file and tree | `registerCategory`, `buildCategory`, `loop`, `clear`, `fill`, `save` | the first source without a record ends the loop; signed limit, unsigned counter |
| `STaskManager`, `SFibersDetector` | multimap of tasks by step | `addTask`, `initTasks`, `runTasks`, `finalizeTasks` | order of tasks; a reader before its writer |
| text sources `SPMISource`, `SCBSource` | stream, `INIT`/`READING`/`DONE`, the cached hit | `open`, `readCurrentEvent`, `close` | the end of an event is seen in the line after it; end of file without newline |
| other sources (`SDDSource`, `SKSSource`, `STTreeSource`, `STPSource`, `SPetirocSource`, `SHLDSource`, `SDRSource`) | stream or tree, entry number | the same | last record, empty input, a source that never ends |
| unpackers | lookup table, raw category | `execute` per hit | two hits of one fibre; unknown channels |
| signal analysis (`SFibersDDUnpacker`) | thresholds, samples, two categories | `decode` per waveform | a signal at an edge of the window; positions shared by fibres |
| tasks `SFibersCalibrator`, `SFibersHitFinder`, `SFibersClusterFinder` | categories in and out, parameters | `execute` per event | reader and writer of the same category; growing lists |
| `SDatabase`, `SParSource` and its kinds | parameter objects by name, their containers and sources | `addParContainer`, `getParContainer`, ... | first source wins; filled once; shared map of names |
| `SContainer`, `SParRootSource` | versions with ranges of validity | `parseSource`, `getContainer` | ranges truncated in file order, looked up in map order |
| `SParContainer`, `SCalContainer`, `SLookupTable` | values from text lines | `fromContainer`, `toContainer`, `getPar` | round trips, duplicates |
| `SLoop`, `SEvent` | chain, position, categories | `setInput`, `nextEvent`, `getEvent` | first event, sparse categories, ownership |
| programs `sifi_dst`, `sifi_dst_sifidetres`; macros; event display | registry, tasks, files | start-up, loop, save; loops over events, viewers | the order of start-up; what a failure leaves in the file |

The parts meet in the categories. In the event loop a source calls its
unpacker, which asks the raw category for slots; tasks read one category by
number and write another by locator; `SiFi::fill` compresses all of them and
writes the tree; `SLoop` loads them back in another program. Parameters flow
from a source through `SDatabase` to unpackers and tasks when these are
initialised.

All parts, also those not modelled and the reasons, are listed in
`PROJECT.json` under `components`; what is hard to test, at its line, under
`hazards`.

What makes each part correct, in one sentence:

- category: an object is found under the locator it was put at, always, and
  under no other;
- event loop: entry *n* of the tree is made of record *n* of every source;
- text source: the events are consecutive blocks of lines with the right ends;
- clustering: the clusters are the connected components of the hits;
- parameter versions: a run is answered with a version that is valid for it;
- database: an object is filled once, from the first source that has it;
- parameter text: writing and reading again gives the same values;
- tables: a channel leads to its own fibre, calibration and layer;
- signal analysis: the times and the charge are those of the waveform, and are
  stored for its channel;
- programs: what is asked for at start-up is there, and an entry of the file has
  only what came from its own event;
- `SLoop`: event *k* that is asked for is loaded as it was written.

## 2. The modules

| module | models | checked by |
|---|---|---|
| `EventStore` | what a category promises: a map from locators to objects, sealed, archived, loaded | through `Category` and `EventLoop` |
| `Category` | `SCategory`, `SCategoryIndex`, `SiFi::fill` of one category, `SLoop::getEvent` | `MCCategory`, `CategoryProofs` |
| `EventLoop` | `SiFi::loop`, `STaskManager`, the loops of calibrator and hit finder | `MCEvents`, `EventLoopProofs` |
| `RecordStream` | what a source promises: consecutive blocks of records, then the end | through `LineSource` and `RecordSource` |
| `LineSource` | `SPMISource`, `SCBSource` and the effect of their unpackers | `MCSources`, `SourcesProofs` |
| `RecordSource` | `SDDSource`, `SKSSource`, `SPetirocSource`, `STTreeSource`, `STPSource`, `SHLDSource`, `SDRSource`, `SDataSource` and their unpackers | `MCSources`, `SourcesProofs` |
| `Sources` | the two above side by side | `MCSources`, `SourcesProofs` |
| `ClusterFinder` | `SFibersClusterFinder::execute` | `MCEvents`, `ClusterFinderProofs` |
| `CategoryIds` | `SCategory::Cat`, the numbers and positions of categories | through `Programs` |
| `Program` | the mains of `sifi_dst` and `sifi_dst_sifidetres`, the registry in `SiFi`, the detector and the start of tasks and unpackers | `MCPrograms`, `ProgramsProofs` |
| `EventReader` | `SLoop`, `SEvent`, the loops of the macros and the handlers of the event display | `MCPrograms`, `ProgramsProofs` |
| `Programs` | programs that write files, then one that reads them | `MCPrograms`, `ProgramsProofs` |
| `Signals` | `SFibersDDUnpacker::decode`, `SDDSamples`, the viewers of `SignalsViewer.C` | `MCEvents`, `SignalsProofs` |
| `Events` | `EventLoop`, `ClusterFinder` and `Signals` side by side | `MCEvents` |
| `ParRootSource` | `SParRootSource` and `validity_range_t` | `MCParameters`, `ParametersProofs` |
| `ParameterStore` | what the parameter database promises: an object is filled when it is asked for first, from the first source that has it | through `Database` |
| `ParAsciiSource` | `SParAsciiSource::parseSource`, the sections of a parameter file | through `Database` |
| `Database` | `SDatabase` with sources of kind `SParAsciiSource` | `MCDatabase`, `DatabaseProofs` |
| `ParContainer` | `SParContainer::fromContainer` and `toContainer` | `MCParameters`, `ParametersProofs` |
| `Addressing` | `SLookupTable`, `SCalContainer`, `SFibersGeomPar`, `SFibersDigitizer`: from a channel to its fibre | `MCParameters`, `ParametersProofs` |
| `Parameters` | `ParRootSource`, `ParContainer` and `Addressing` side by side | `MCParameters`, `ParametersProofs` |

`EventLoop` uses categories as `EventStore`s, and `Category` is proved to
implement `EventStore`, so that the event loop need not repeat the index.
Likewise a source is seen in `EventLoop` as one record per event; what
`LineSource` adds is how such a record is made of lines. `Database` runs the
actions of `ParAsciiSource`: a source is constructed in the middle of the calls
to the database. `ParContainer` and `Addressing` read what `ParAsciiSource`
leaves in a container. `Programs` lets the files of `Program` be the input of
`EventReader`, across two processes. `Sources`, `Parameters` and `Events` hold
components of a kind that do not touch each other: a behaviour is about one of
them, and the variables of the others stay.

### Category

The variables are the members `header.dim_sizes`, `header.writable`,
`index.idxmap`, `index.compressed` and `data`, the output tree, and a flag that
says that the program which reads the tree has taken over. An action is a
public method together with what every caller does right after it: all users
of `getSlot` construct an object in the slot at once, so `GetSlot(l, o)` does
both. Positions that lie outside the array are not reached: `loc2pos` checks
nothing and the callers are trusted (`InBounds`); what that trust buys is
proved as `Loc2PosInRange` and `Loc2PosUnique`. A category that was
default-constructed by the reading program is not writable and `compress`
leaves it alone, which `Reopen` and `Compressed` have.

The refinement mapping to `EventStore` reads the objects through the index:
`objects` is what `getObject(locator)` answers for each locator. Compression
is a step `Seal` that changes no object; this is the content of
`ImplementsStore`.

### EventLoop

`pc` is the loop that runs (`open`, `event`, `read`, `tasks`, `execute`), `i`,
`source`, `task`, `size` and `obj` are its counters. An object is represented
by the record number each of its sides comes from: exactly what is needed to
see that no event holds data of another one. Tasks are the calibrator (raw to
cal) and the hit finder (cal to hit). A side is not recorded for the hit finder
when its time is 0 (`SFibersHitFinder.cc:136`), which is the value of a side
that was not read, but not of this alone: the digitizer stores a time below 1,
of a signal in the first samples, as an integer, that is as 0. `zeros` is the
set of records with such a time, chosen at the beginning, and `Accepts` the
test. `EventsComplete` asks for the hit of a fibre that was read on both sides
unless one of its times is 0; in that case it asks only that the hit, if there
were one, would be of this event. That the hit is lost is what the run
`pmihits` refutes, with the source for which it happens in every event. The
unpacker task of step 0 has an empty `execute` and the cluster finder is a
reader that writes a category of its own, so that neither is an action here.
The order of `AddTask` is free, as detectors may call it in any order.
`Crash` is the null pointer a task meets that asks a compressed category for a
slot. Every source may fail to open, every task may fail, and the calibrator
aborts for a fibre without parameters (`CalibrationMissing`).

### LineSource

A line carries a fibre and, per format, two times or a side and possibly a
time stamp. `next` is the number of lines taken from the stream, beyond the
end when the stream has failed. `Good` is `istream.good()` after the line has
been read. Times are compared as doubled means, in integers. `Shifted` is the
subtraction of `time_first`; the shared pointer `hit_cache` of the next event
is not among the hits that are shifted. A file without a valid first line
leaves a hit without a fibre (-100): its channel is not in the lookup table and
the program stops (`UnpackFails`). `None` stands for a cached hit that is not
there; `NoneAssumption` says that it is not a hit.

### RecordSource

A file is its number of lines, blocks or entries and the content of each
record; `kind` says which source reads it. `Open`, `Read` and `Execute` have one
disjunct per class. A record goes through `todo`, the calls of `execute` still
to be made: one per address, or per hit, or per SiPM. What a source returns at
its end is the branch `Ends` of its read: each class finds the end in its own
way (a stream that fails, `eof`, a count compared with `>` or `==`, or not at
all), and `EndsAfterLastRecord` says for each what that gives: `TTree` delivers
its last entry twice, `TP` delivers zeros for ever from a tree without entries,
`DR` never ends by itself. `kine` is the list of tracks, which the source hands
over with the first SiPM only. `unpackers[subevent]` of an address that is not
registered aborts; the hadaq library and `TTree` are external.

### ClusterFinder

One action per turn of each loop; `h`, `h2`, `turn` (`i` in the code) and
`hit_nr` are the iterators of the code, `stage` is the loop that runs. `hit_cluster_map` is keyed by pointers, so that its order is
arbitrary: the numbers 1 .. N are that order, and since every relation of
overlaps is an initial state all orders are covered. Position, error and energy
of a cluster are numbers on which no branch depends and are left out.

### ParRootSource

`list` is the file, `validity` the ranges after truncation, `cont_map` the map
by beginning. The member `last_container` is read but never set, so the cached
answer never occurs. Ranges in the file are not empty; all lists are initial
states, ordered or not.

### Program, EventReader and Programs

`call` says which call of the main is made, `MainOf` lists the calls of a
program, and `Start`, `Next...` and `InitTask...` have for each task and unpacker
which category it asks for and which it builds. A category is absent from the
map, an entry with a null pointer (a category asked for before it is
registered), or built. `ProgramsStartUp` says that the mains never get there.
`content` is, for each category, the event its objects come from; an event of
the source may be without data. A file is what the run left: saved, or without
tree and header when a task or the main stopped first. `EventReader` has the
chain of the files, the categories that are bound, and what they hold after each
`getEvent` or `nextEvent`; the clients are the loops of the macros and the
buttons of the display. `IsCleared` is the bound of `SEvent::clearCategories`,
which is the number of categories instead of their largest position, so that
categories at high positions keep what an event of another file left, although
`clearCategories` is said to clear all of them (SEvent.cc:58).
`ReadsWhatWasWritten` leaves these out: it asks for an empty category below the
bound only, and requires nothing of the stale ones. `addFiles` stops at the
first file it takes, although its comment says the opposite (SLoop.cc:79); the
property is about the files that are in the chain, whichever they are.
`setInput` reads entry 0 before the categories have an address, so that a loop
with `nextEvent` at its end finds nothing in its first pass, which
`EveryPassShowsItsEvent` refutes; from the second pass on `ReadsWhatWasWritten`
holds of it, too.

A program that exits or crashes, be it in a task, in an unpacker or behind the
array of category infos (`InitBranchesCrashes`), leaves a file without tree and
header. `EntriesAreOwnEvents` is about files that were saved, and says nothing
of the events that are lost with the others.

### Signals

Samples are integers, times are in units of a fraction of a sample (`Unit`), so
that `FindT0` and `FindTMax` interpolate exactly. The signal keeps its time as a
float, the raw object as an integer: `SampleOf` cuts it to whole samples. `Analysis` follows `decode`:
base line, amplitude, threshold in either mode, `FindT0`, `FindTMax` with its
sentinel -1, `FindVeto`, the limits of the charge integral. A signal that does
not return under the threshold has a `tmax` of -1, and with integration over
the length of the signal the accumulate runs from its start to an end before
it (`RunsAway`, `DecodeCrashes`). `SamplePos` is `loc2pos` with the sizes 1, 1
and 16 that the category of samples is registered with; fibres whose numbers
have the same sum share a position, and `SignalsAreAnalysed` says which signal
is then lost. `CutAndView` reads the tree that was written, matching objects of
three categories by their number. The viewers are loops over one file, or over
several in turn: `Good` is `input.good()` before the read, which is true once
too often.

### Addressing

One run of a program reads the three tables, asks for hits, may write lookup
table and calibrations, and a second program reads what was written. Text is a
sequence of lines with numbers; what `sscanf` does with more than two digits
is in `ReadLookup` and `ReadCal`, that the last line of a channel counts in the
one table and the first in the other is, too. `LayerIndex` is the index
`cnt_layers * m + l` of the geometry, right for the first two modules only.
`Key` is `quickHash`, a tuple because the hash is reversible. The loop of
`toContainer` ends before the last board: `WrittenBoardsAreRead` states that a
written table has every board of its range, and is refuted. `HitsFindTheirFibre`
asks that what is found is right, and nothing of the layers from the third
module on.

### Database and ParAsciiSource

`state`, `file`, `next`, `cont_name`, `cont_freed` and `containers` belong to
the source that is being constructed. An action is one turn of the loop in
`parseSource`; while it runs the one thread makes no other call (`Ready`). A
line is a section, a parameter line or blank, and a container keeps line
numbers, which tell lines apart and keep their order. Three paths a test
hardly reaches are in the model:

- a section that occurs twice: `emplace` keeps the first container, the new one
  is freed with its `unique_ptr`, and the loop goes on to write lines to it
  (`WriteFreed`: the line is lost or the program aborts);
- a file of one line without a newline: the buffer has the length of the file,
  `getline` fills it and fails, `eof` is never reached and the loop does not
  end (`OneOpenLine`);
- a parameter line before any section: `parseSource` returns false, the
  constructor ignores it and the source has what was parsed so far (`Reject`).

An empty file gives one turn with an uninitialised buffer of size zero, taken
here as a blank line.

`registered` and `filled` merge the maps of the three kinds of objects,
parameters, lookup tables and calibrations; an object is a pair of kind and
name. `par_containers` and `conts_sources` are the maps of the code from which
it decides whether an object has been read: the second one is shared by all
kinds. `Registrable` says which names are registered for which kind; the
detectors of the framework register a name for one kind only, and `NoClash`
names that condition. Assertions are a constant of a behaviour (`assertations`,
spelt as in the code): a name that is not known ends the program, or is
answered with `nullptr` when assertions are disabled. `OpenFails`, `GetAborts`
and `ParseAborts` end the program. The result of `getParams` is not looked at
by the code, so "filled" means that the lines of a container were handed to the
object. Ascii sources ignore the run number, so it is not in the model; runs
matter for `ParRootSource` only.

### ParContainer

The variables are those of `fromContainer`: the line, `wn` (`param` or `cont`),
the name and the values collected. The type of a parameter selects a branch of
equal shape and is abstracted; a line with an unknown type or a value that is
not a number is `Invalid`. Comments are dropped before anything else is looked
at, empty lines are skipped between parameters, and a second definition
replaces the first. A behaviour reads a container, or begins with parameters
that were added one by one, writes them with `toContainer` and reads the text
again. A parameter whose last line has a backslash is left out silently,
although the comment at `SParContainer.cc:407` says that a broken file aborts.
`ParametersAsWritten` is about complete definitions; it does not require that
the open one is left out with a message or without, nor that the program
aborts.

## 3. The runs

| run | question | bounds |
|---|---|---|
| `category` | do index and array agree, is it a store | a linear and a three-dimensional shape of at most 4 positions, 2 objects, a tree of 2 events |
| `newslot` | is the slot of `getNewSlot` free | the linear shape; violated, see findings |
| `events` | is an entry of the tree made of one record of every source; are the clusters the connected components; are times, charge and pile-up those of the waveform and stored for their channel, and do the viewers show the records | loop: 3 sources of 0 to 3 records, 2 fibres, limits -1, 0, 1, 2, times of 0 in no record, in different events of the two sides or in the same; clusters: 4 hits, all 64 overlap relations, 2 modules; signals: one channel with all waveforms of 6 samples in 3 levels after a base line of 2 samples, 30 settings of polarity, threshold, mode, dead time and base line; 3 channels with pulses of 2 heights in up to 3 files of up to 2 records, positions aligned, shared and in another order |
| `sources` | are the events the right blocks of lines; does every source with a record per event deliver each once and end after the last; does every source end | both text formats, all files of up to 3 lines, with and without a final newline; 7 other sources, files of up to two records and a half, up to 3 addresses, 1 or 4 events |
| `pmihits` | does every recorded fibre give a hit | the PMI format; violated |
| `validversion` | is a run inside a range answered | lists of up to 2 ranges in 0 .. 4; violated |
| `database` | is an object filled once, from the first source that has it; are the sections of a file split right; does parsing end | 2 names, 2 sources, all files of up to 3 lines, each with and without a final newline |
| `clash` | is an object that is handed out filled, whatever is registered | 1 source of 1 line, a name for two kinds; violated |
| `parameters` | is the answer valid and nothing lost by truncation; do parameters have the values of the text, also after writing and reading; does every hit find its own fibre, calibration and layer | all lists of up to 3 ranges in 0 .. 5, all runs; 2 parameters, containers of up to 4 lines, 0 to 5 values, `line_split` 2; tables of up to 2 lines, 2 boards of 2 channels, geometries of 3 modules, 2 hits per program |
| `lookup` | has a lookup table that was written all boards of its range | as `parameters`, 1 hit per program; violated |
| `programs` | does every program start up, is an entry of its file made of its own event, is it read as it was written | 2 programs on inputs of the kinds DD, board and tree of a simulation with 0 or 2 records, 1 or all of them asked for; chains of up to 2 files; 3 presses of a button of the display |
| `calibration` | does each pass of a loop with `nextEvent` at its end find its event | 1 file of up to 2 events; violated |

Why the bounds are enough. In the category two objects tell "the same" from
"another", three locators leave a hole in the middle, and two events in the
tree make it possible to load the older one. Four hits are the smallest number
for which a chain of hits can be found in an unfavourable order and another
cluster still remains. Three sources give one that ends first, in the middle
and last; two sides of one fibre come from different sources, and a time of 0 is in an
event of its own, in the same event on both sides, and in none. Three lines allow
an event of two lines, a boundary and a cached line; the times include one at
the edge of the window around the first hit that lies inside the window around
the second. Three versions allow an overlap, a gap and a list out of order.
Two sources give a name that is in the first, the second, both or none, and a
source that is added after a name was read; in three lines a section can be
empty, filled, repeated and left again. Four lines of a container are a
heading, a comment, values and a second definition; with two values per line,
five values make one, two and three lines, full and not full, as 8 does in the
code.
For the sources with a record per event, a file of two records and a half has
its end inside a record, and one or four events are fewer or more than the file
has; an entry 2 can be delivered twice and be told from entry 1, and three
addresses give one that is registered, one whose channel is unknown and one
that is not registered at all. Two programs of two events leave a file that is
saved and one that is not, in either order in the chain, and a second file whose
categories have other positions; three presses go to the end of the chain and
past it. A waveform of six samples has room for a signal that starts in the
base line, one that returns and one that does not, and a second pulse within
the dead time. Two lines of a table tell the first from the last line of a
channel, and three modules are the first where the layer index goes wrong.

The proofs remove the bounds for `Category`, `ClusterFinder`, `ParRootSource`, `ParContainer`,
`Database`, `LineSource`, `RecordSource`, `EventLoop`, `Programs`, `Signals` and `Addressing`.

Each property has a mutant under `mutants`: a plausible bug in one operator for
which the run reports exactly that property.

### Fairness and deadlock

The program is one thread that waits for nothing: as long as a step is possible
it is taken. In `EventsSpec` the steps of the loop (`LoopNext`) and of the
clustering (`FinderNext`) are therefore weakly fair, each as a whole, and
`Terminates` and `ClustersFound` are claimed under it. Nothing is assumed about
*which* step, so that a source may fail to open, or a task fail, at any time.
Nothing is claimed, and so nothing assumed, of the progress of a measurement. In `Sources` the fair steps are those of the text
sources (`LinesNext`) and the calls the event loop makes to a record source
(`RecordsCalled`): that the main adds unpackers is not assumed. `SourcesTerminate`
is claimed under it, also for the two sources that do not end by themselves,
`DR` and `TP` with a tree that has no entries: the number of events ends them,
which for `TP` without an option is a huge one. All files have finite length. In `Database` only the parser is fair: the
constructor of a source runs until it returns, but nobody has to call the
database. `SourceIsParsed` names the one file for which it does not return.

Deadlock is not checked where the program really ends: `MCCalibration`,
`MCClash`, `MCDatabase`, `MCEvents`, `MCLookup`, `MCPMIHits`, `MCParameters`,
`MCPrograms` and `MCSources`. It is checked for `Category` and for
`ParRootSource` by itself, which can always be called again.

### Findings

1. `newslot`: `getNewSlot` is said to create a slot at the end; it takes the
   number of entries for it and replaces an object when the entries have holes.
   `NewSlotIsFreeWithoutHoles` is the part of the promise that holds (proved).
2. `pmihits`: the PMI source sets the earlier side of the first hit to time 0,
   and the hit finder takes a time of 0 for a side that was not recorded: the
   first hit of an event is lost. So is a fibre of the desktop digitizer whose
   signal begins in the first samples (`zeros` in `EventLoop`).
3. `validversion`: a version of parameters is found only for the first run of
   its range, because the map is asked with `lower_bound`.
4. `clash`: lookup tables and calibrations count as read when *any* object of
   their name was read. A calibration of the name of parameters is handed out
   empty. Names do not clash in the detectors of the framework; the database
   does not refuse them.
5. `lookup`: a lookup table has boards from `addr_min` to `addr_max`, but
   `toContainer` writes only those below `addr_max`; the program that reads the
   table back ends at a hit of the last board.
6. `calibration`: `nextEvent` is said to belong at the end of a loop, `setInput`
   having set the position to event 0. But `setInput` loads event 0 before the
   categories have an address: the first pass finds them empty. From the second
   pass on the loop has the event of its position (in `ReadsWhatWasWritten`,
   proved).

## 4. The proofs

`CategoryProofs` assumes of the constants what `Category` states in its
`ASSUME`s: shapes have one to three positive sizes whose product is at most
`Capacity`, locators are sequences of naturals. Three parts:

1. `loc2pos` is a mixed-radix number: locators in bounds have positions inside
   the array, different ones different positions (`Loc2PosInRange`,
   `Loc2PosUnique`).
2. `Rank` numbers a set of positions from 0 without gaps, so that the array
   packed by ROOT and the index renumbered by `SCategoryIndex::compress` still
   fit (`PackedEntries`, `CompressKeeps`).
3. The inductive invariant `IndexInv` has the types, the agreement of index and
   array in the category and in every event of the tree, and that a category
   that is not writable is empty or was loaded. The agreement alone is not
   inductive: loading an event needs it of the tree. From it follow
   `IndexCorrect`, `NewSlotCorrect` and
   `CategoryImplementsStore`: every step is a step of `EventStore` or leaves
   its variables alone.

`ClusterFinderProofs` has the inductive invariant `Inv`, a conjunction of named
parts: the types; `Counted`, the code's count of unassigned hits is right;
`Numbered`, clusters are numbered without gaps; `Visited`, hits the outer loop
has passed have a cluster; `MapMatchesLists`; `ClustersConnected`; `Scanned`,
what the inner loops have compared so far has been assigned;
`LeftClustersComplete`; and `Placement`. `Scanned` is why one pass over a list
that grows at its end is enough: a hit that is still free when a member has
been compared does not overlap that member. Each part has a lemma that a step
keeps it, with one case per action. `ComponentsCorrect` puts the two halves
together, connected and complete, without induction over paths: a component is
what every set that is closed under overlap has if it has the hit. A cluster is
such a set; and a closed set that has one hit of a cluster has all of them, since
the least hit of the list that is missing would overlap one before it
(`ClusterInClosed`).

`ParametersProofs` has three inductive invariants. That of the versions is `Inv`:
`Truncation` says which
ranges the first loop has already changed and that the others are those of the
file; `Remembered` that the cached version is the one before; `Keyed` and
`Inserted` relate the map to the beginnings of the ranges. Two facts carry the
rest: `lower_bound` finds a valid version only at the very beginning of its
range (`FoundBeginsThere`), and there it does (`BeginningIsFound`), because in
an ordered list truncation moves an end at most down to the next beginning or,
across a gap, up to it, but never to the version's own beginning. The first
gives `AnswerCorrect` for lists in any order, both together `BeginningCorrect`;
`DisjointCorrect` and `LatestCorrect` follow from `Truncation`; `VersionsCorrect`
says the same of a program that reads containers and tables too.

`ContainerInv` is that of the text of a container. While lines are read, `Taken`
says of the lines so far which parameters they define (`ReadAs`, `Latest`) and
whether they end inside one, which it is and with what values (`Inside`): there
is at most one open heading, since a heading inside a parameter ends the
program, and without this a line that closes a parameter could end two of them.
A line adds at most one definition (`OneMoreDefines`), which is then the last
(`NewLatest`). `AsWrittenCorrect` follows. While parameters are written,
`WrittenSoFar` says that the lines are `Readable` (a heading stands first and after
a line without a backslash and nowhere else) and that the parameters which are
not left each have one definition with all their values (`Holds`). Both
are kept because a parameter is written as a heading and lines of values of
which the last alone has no backslash (`WrittenIs`), whether the number of values
is a multiple of the length of a line or not (`LinesNeeded`). When they are read
again, `WrittenBefore` leaves only a parameter without values to fail, and at the
end one definition of each name makes the last one the one that was written
(`HeldAreRead`): `RoundTripCorrect`. The values of several lines are a recursive
function; that it has a solution is `KeptIs`. The length of a line and the numbers
of lines and values are any; `None` is neither a name nor a sequence of numbers.

`TablesInv` is that of the tables of `Addressing`. `PlaceInv`: the layers have the
indices and limits of the first two modules (`LayerIndexIs`; of the third they
would be false); `DigitizeFinds` is why the first limit above a number gives the
fibre with this number. `LookupInv`: with *k* lines of the user read, a channel
has the last of them that is for it, and none if there is none (`LookupAt`). In the
second program the lines are what `WrittenLookupIs` says of the two nested loops
of `toContainer`: one for each channel that has a fibre, but for the last board.
There it does not matter any more in which order they are read, each being
already the last one of the user's for its channel; what has to be kept is that
a channel has it or it is still to come (`LookupAgain`). `CalInv` is the same of the calibrations, the other way
round (`CalAt`, `CalAgain`): the first line for a fibre stays, and a default may
stand in the map only for a fibre that has no line at all, which is why a
default that was written does no harm when it is read again. It is claimed for
tables without a third digit, since `ReadCal` makes one fibre of another
otherwise; a key then gives back the fibre it was made of (`KeyIs`), also from
`fromHash`. `ResultInv`: what was found for each hit is right, and a program ended
for a reason; it is kept because the tables of the user do not change
(`TablesSay` gives the words of the property to those of the invariant).
`TablesCorrect` follows. Sums of fibres and flattened lists are recursive
functions, whose solutions `UpToIs` and `FlattenIs` are. The assumptions are
those of `Parameters`: the lines have natural numbers and a side, `None` is no entry of
a table, the lookup table has two boards at least, and a value that was written
once is read and written as it is, the default among them.

`DatabaseProofs` has the inductive invariant `Inv`. `CurrentSection` says which
section the parser is in and that its container was freed if and only if an
earlier section has the name; without it a parameter line could belong to a
section that is not the current one (`ParamOfCurrent`). With it each kind of
line keeps `SectionsAreRead`. `FirstSourceWins` is kept because sources are only
appended (`AddedAtTheEnd`) and the loop over them stops at the least one that
has the name (`FirstHavingIsFirst`). The second invariant, `MapsInv`, needs
`NoClash`: the maps by name tell which objects have been filled. Under this
condition `HandedOutCorrect` states what `clash` refutes without it, and
`DatabaseImplementsStore` that the database implements `ParameterStore`. The
assumptions are those of the modules: `None` is not a name, a number, a
sequence of numbers or a filling.

The first six parts of `SourcesProofs` have the inductive invariant `LineInv` of the
sources of lines. A file is cut into blocks
by its lines alone, without the variables of the source: `Belongs` says which
hit is that of a line in the event that line `b` begins, `IsBlock` that a list
of hits is that of consecutive lines, `Begins` that a hit is kept as it was
read, `Parted` that the line after an event does not belong to it. With these,
`AreEvents` says of all events delivered that each is a block which begins
where the one before ended; `Calls`, `Reads` and `Unpacks` what is in the buffer
and in the cache at each place of the program, and `Position` that the lines
taken are those delivered, buffered and cached. `Position` is what is missing
from the properties themselves: it relates the look-ahead to the last event,
and it is disturbed by every step. For the time stamps of `CB`, which a
continuation takes from the hit before it (`HitOfLine`), the block is the right
notion too: all its hits have the stamp of its first line. The last part, `LinesInv`,
says that in a program with any of the sources the lines are touched by the
source of lines alone, so that what a run checks of `SourcesSpec` is what is proved:
`LinesOfSources` and `LinesImplementStream`.

`EventLoopProofs` has the inductive invariant `Inv`: the types; `TasksInOrder`,
the multimap of tasks is ordered by step whatever the order of insertion
(`Insertions`, `AddTaskOrdered`); `Counted`, the loop counters and the numbers
of records taken; `AtRecord`, every source before the current one has taken the
record of this event and no other has; `WhileRead` and `WhileProcessed`, what
the categories hold in between. For these two, the objects of an event are
numbered by the order of their fibres (`Before`, `Numbered`), because a task
reads its input by number after compression and writes by locator:
`RawUpTo(f, n, k)` is the object of a fibre when `k` sources have been read, and
`Made(from, to, k)` what a task has made of the first `k` objects of its input.
The hits are `HitAll`, exactly those of fibres with both sides and no time of 0,
for every choice of `zeros`.
Each source adds its side (`NextSource`), each turn of a task one object
(`OneMore`), and after the last the output is complete (`AllMade`).
`EventsCompleteCorrect`, `AllWrittenCorrect`, `NeverCrashes` and
`EveryCategoryIsStore` follow: each of the categories in the loop makes steps of
`EventStore` only, so that what `CategoryProofs` proves of `Category` is what
the loop needs.

For the other seven sources `SourcesProofs` has the inductive invariant `Inv`.
`Counted` and `InOrder` are common: event *e* is record *e*, or the last one.
What differs is the member by which a source knows its place, with one part for
each way of counting: `StreamAt` (a stream that fails at its end), `EntryAt` (the
number of the event is the entry of the tree, and reading past the end keeps
the last one) and `CounterAt` (a counter compared after the read). From it follow
`EndsCorrect`, how often each source delivers its last record, and
`RecordsImplementStream` for those that implement `RecordStream`.

What is in the category of an event needs a second invariant, `WholeInv`, which
has `Inv` in it. Between two calls of `execute` (`Executing`, `MadeBy`) there is
a set *D* of calls such that *D* and the calls in `todo` are together all calls of
the record, the category is `RawOf` *D* and the tracks are `TracksOf` *D*. The set
is what the variables do not have: it is empty after a read, because the loop
clears the categories before it asks the source; each unpacker adds its call
(`SamplesAdd`, `BothAdd`, `OneSideAdds`, `SiPMAdds`), which sets its sides and
takes none away (`SetByMore`), whether it makes a new object, changes the old one
or replaces it; and when `todo` is empty it has them all (`EventMade`, `AllMade`).
`kine` is `None` just when a call of *D* was usable, so that the tracks come once.
`Listening` says that something is called at all, from the moment a source is
open. That `todo` has all calls to begin with is a fact about flattened
sequences (`CallsAre`, `FlattenHas`, `AscendingHas`). `RawCorrect` and
`TracksCorrect` follow; the assumption `NoObjectAssumption` keeps `None` apart
from objects and numbers.

`ProgramsProofs` has the inductive invariant `Inv`, one half for each process.
`WritingInv`: what a main has done is told by the calls that are left of it
(`MainIsSuffix`), so `Registry` says which categories are registered and built
when *n* calls are left, `Inited` which tasks have been inited, and `Filled` that
an event in the tree has what its own record brings, put through all tasks, in
the categories that are built and nothing in the others; a file that was saved
has that too. Each call of a main has a lemma that it keeps these parts; none of
the properties is inductive without them, since whether a task finds its input
depends on calls long past. The fold over the tasks by their steps is unrolled
once (`TasksRunInOrder`). `ReadingInv` holds while a program reads: the chain of
files has the entries of all of them in a row (`Flattened`, `ChainHasLength`), and
the memory of the reader shows the entry its client is at (`ShowsAt`), which is a
different one for the loops with `getEvent` (`ScanSeen`), with `nextEvent`
(`CalibrationSeen`) and for the event display (`DisplaySeen`). `StartUp`,
`EntriesAreOwn` and `ReadsWritten` follow.

`SignalsProofs` has the inductive invariant `SignalsInv`: what is in the categories
and in the tree (`DataInv`), what `CutAndView` has drawn (`CutInv`), and how far the
viewers have read (`ViewInv`). The analysis is compared with its definition without
an invariant: it is one step, and the facts are about its operators. The sums of
base line and charge are sums over finite sets (`IsSum`), with the fold of the
code as a witness; `BeginsAt` and `EndsAt` say where `FindT0` and `FindTMax` stop for
either polarity, with the line between two samples solved for its time, which
needs `UnitFits`, that the division has no remainder. The time of the raw object
is the last whole sample that is not after it (`TimeCutOff`). `EventInv` says what a category
has after *k* channels (`Written`): a side is that of the last channel at its
position that has this side, and the fibre that of the last channel at the
position. This is weaker than "the signal of its channel", which is false where
positions collide, and it is kept by every channel; `SignalsAnalysed` follows at the
end of the event. `EventIs` keeps it for the events in the tree, where the
categories are compressed. `CutAndView` matches objects by their number in the
compressed categories; numbers and positions have the same order (part 6), so
that under `Aligned` the object it finds is that of its fibre, and the signals drawn
are those of the passing records in their order, counted by a cardinality
(`InOrder`). `CutShown` follows. A viewer's memory is the record before the one it
reads (`ReadSoFar`, `FilesShown`); after the last one a binary file, or a text that
ends with a newline, makes it draw once more what is left (`Extra`). That the recursive function of the model has a
solution is proved in part 2. `ViewersShown` follows. The assumptions are those of
`Signals`: channels are fibres of the detector, the files have a waveform each, a
call of `CutAndView` asks for a signal at least, and `None` is not a number, a hit or a call.

Type invariants are proved (`TypeCorrect`) rather than listed in the runs, as
are `MapMatchesLists` and `ClustersConnected` of the clustering. Every safety
invariant of a run is a theorem. Model-checked only is liveness (`Terminates`,
`ClustersFound`, `SourcesTerminate`, `SourceIsParsed`): fairness
and ENABLED are out of reach of the prover and stay with TLC.

## 5. Plan

Done: all modules of section 2; proofs of `Category`, `ClusterFinder`,
`ParRootSource`, `ParContainer`, `Database`, `LineSource`, `RecordSource`,
`EventLoop`, `Programs`, `Signals` and `Addressing`.

What could follow: a database server behind `SParDatabaseSource`, when the
repository has one.

## 6. Not modelled

- `close` of the sources: no program calls it. `toContainer` of the
  parameters is called by tests only, writing them from `SDatabase` is commented
  out (SDatabase.cc:95); `ParContainer` and `Addressing` have it as an
  operation of its own.
- `SMysqlInterface` is a stub that answers with constants, so that
  `SParDatabaseSource` never has a container; its lookup is, line by line, that
  of `SParRootSource`.
- The digitizer is a task that no detector adds at present
  (SFibersDetector.cc:75). Its addresses are in `Addressing`, light propagation
  is not.
- Floating-point formulas of calibration, position, energy and photoelectrons:
  no branch that the properties are about depends on them. Where a branch does,
  as in the analysis of signals, the numbers are integers in a fraction of the
  unit.
- Drawing, fits and histograms of macros and event display; terminal output;
  Python bindings; getters and setters of the event data and parameter classes.
- The hadaq library, `TTree`, `TChain` and `TClonesArray` are external, modelled
  by what the code uses of them.
- The extension `.txt` of an input of `sifi_dst` never matches (dst.cc:140), so
  that this source is not started by a program.
- Assertions are those of the default build, except in `Database`, where they
  are a constant of the behaviour.
