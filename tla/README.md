# SunPinyin: a formal model

SunPinyin is a Chinese input method: keys come in from a desktop's input bus, are cut
into segments, the words of a lexicon are laid over the segments as a lattice, a
statistical language model and the user's own history pick the best path through it,
and the user corrects the result word by word until it is committed.

This directory holds TLA+ modules for the parts of that program that keep state over a
long sequence of calls, for the algorithms that turn dictionaries and corpora into the
tables it works on, and for the XIM server that brings it to X clients; the TLC
configurations that check them on small instances; and proofs, checked by TLAPS, of what
holds for every instance. Paths below are relative to the repository root, and
`ime-core/`, `common/`, `xh/`, `pinyin/` and `slm/` stand for the directories of that name
under `src/`, `xim/` for `wrapper/xim/`.

## The system

| component | state | operations | what makes it correct |
|---|---|---|---|
| commit history, `ime-core/ic_history.*` | bounded queue of word ids, four pools of counts, the history file | `memorize`, `forget` (a word, a stream), `saveToFile`, `loadFromFile`, aging | queue bounded; pools never count less than the queue remembers; a save, a crash, a load never break this; what is deleted stays deleted in that run |
| session factory, `ime-core/options/` | profiles, `m_views`, per policy: resources, a history cache | `createSession`, `createXinghuaView`, `createQuanpinView`, `nextView`, `initSession`, `destroySession` | no view is used after its death; commits are in the cache the next one saves; no save loses what earlier runs left |
| ibus engine, `wrapper/ibus/src/sunpinyin_engine.cpp` | its view, window handler and hot keys | constructor, destructor, `process_key_event`, `enable` | the same |
| Xinghua segmentor, `xh/input/xh_seg.*` | the input (twice), segments, `updatedFrom` | `push`, `pop`, `insertAt`, `deleteAt`, `clear` | the segments do not depend on the edits that led to them |
| Pinyin segmentors, `pinyin/input` | the input as typed and as cut, segments, `updatedFrom`, corrections | as above, in three schemes | segments cover the keys; edits end and do not matter; what is not reported as changed has not changed |
| input session, `ime-core/view/imi_view_classic.cpp`, `ime-core/imi_context.*` | caret, where the next choice starts, candidates, the best path | one handler for each key | a sentence covers the input once; choices stand until taken back |
| lattice, `ime-core/lattice/lattice_manager.*`, `common/input/segment/` | frames with their words, best words and flags | `clearFrom`, `buildLexiconStates`, `buildLatticeStates`, `backTracePaths` | building from where the input changed equals building from scratch |
| search states of a frame, `ime-core/lattice/lattice_states.*` | a map of language model states, a heap, an index into the heap, a counter | `add`, `clear`, `setMaxBest` | the four agree; each kept state keeps its best |
| Pinyin lexicon, `pinyin/lexicon`, `pinyin/lattice` | the trie, lexicon states of the frames | construction, `threadNonCompletePinyin`, `forward` | the frames offer the words the segments spell, no others |
| Xinghua lexicon, `xh/lexicon`, `xh/input/segment` | the dictionary in codes, the trie with its links, branches | `DictConv`, `threadNonCompletedXh`, `forward` | the frames offer the words whose codes the keys fit, no others |
| user dictionary, `ime-core/userdict.*` | sqlite table in memory and on disk, a cache of strings | `addWord`, `removeWord`, `getWords`, `_copyDb` | memory, disk and cache agree; a saved word stays |
| model tools, `slm/*` | files of n-grams and models | count, merge, build, prune, thread, print, pack, segment text | counts are those of the corpus, probabilities add up, each form of the model says the same |
| language model, `slm/slm.*`, `slm/thread` | tables | `transfer`, `historify` | the threaded model gives the probabilities of the original |
| XIM contexts, `xim/ic.c`, `xim/xim.c`, `xim/xim_trigger.c`, `xim/sunpinyin_preedit.cc` | pool, free stack, current context, one preedit window | create, destroy, collect, focus, keys | every context is free or used, never both; unfinished text can be seen |
| XIM protocol, `xim/IMdkit` | connections and their key queues, frame managers, properties and their offsets, selections | message handlers, `FrameMgr*`, send and receive, registration | keys stay in order and are handled at last; messages are laid out and read as the templates say and arrive whole; a server that owns the selection can be found |
| candidate list, `ime-core/imi_uiobjects.*` | merged candidates, their kinds, the page | `addSentence`, `addTail`, `addWord`, paging | an index shown is the index chosen |
| option event bus, `ime-core/options/imi_option_event.*` | listeners | register, unregister, publish | every listener is told once |
| plugins, `ime-core/imi_plugin.*` | loaded plugins, waiting time, last error | provide and translate candidates | a deferred update reaches a live view |
| full-width characters, `ime-core/helper`, `ime-core/imi_funcobjs.cpp` | toggles, the omit flag | forwarding a character | quotation marks alternate |
| other front ends | `wrapper/scim`, `wrapper/macos`, `wrapper/gtk_standalone` | as the ibus engine | as the ibus engine |

How they interact. An engine, or the XIM server, calls the factory for views and then its
view for every key (`onKeyEvent`). The view calls the segmentor, hands its segments to the
context (`buildLattice`) and reads back candidates and sentences; the context drives the
lattice manager, whose frames are *static*, shared by all contexts, and commits to the
*static* `CIMIContext::m_pHistory`. The lattice manager walks the trie and asks the user
dictionary, whose row numbers above `INI_USRDEF_WID` are word ids that appear in the history
too. Everything in the input method runs on one thread: concurrency is the interleaving of
engines over shared objects and static state, of the server with its clients over the X
server's queues, properties and selections, and of each process with its own death. The
tools run one after the other; each reads what the one before it has written.

What is hard here: incremental rebuilding (each edit says from where on the lattice is
thrown away), undo by walking back through flags on frames, caches over one file, counts
kept by hand in several containers, pointers that outlive what they point to, keys that
queue up behind an answer a client owes, names of properties that come round again, node
sharing in tries that are extended while they are walked, and weights that must fit what
pruning has left. `PROJECT.json` lists the hazards line by line.

## The modules

`MC*` modules give the constants their values for TLC; where model values are enough
(`ClassicView.cfg`, `LatticeStates.cfg`, `SessionFactory.cfg`, `UserDict.cfg`,
`XimMessages.cfg`) the module is checked as it is. In several modules a definition
marked *mutant* or *mutation* stands before the one it is a plausible mistake of; no
specification uses it, it is there to see that the properties notice.

Runs that may really stop say `CHECK_DEADLOCK FALSE`: a session that has run into undefined
behaviour, an input at its bound, a process that has ended, a tool that is done.

### BigramHistory: the commit history

Models every operation of `CBigramHistory` that the program calls as one action (nothing
calls `clear` and `addStopWords`, and `pr` only reads).

* `memory` is `m_memory`; `uni` and `bi` give for every id and every pair what the short-
  and the long-term pool hold, with the age of the short-term entry; `file` is the history
  file as the ids it decodes to; `up` says that the process runs.
* `Memorize`, `Forget`, `ForgetStream`, `SaveToFile`, `LoadFromFile` are the methods of the
  same name. `SaveToFile(n)` with n less than the queue's length is a short write; `Crash`
  may strike inside a save after any number of ids; a load reads nothing of a file that does
  not open; `Tick` lets the clock advance.
* One batch for a stream: popping the front only debits long-term counts and pushing only
  credits short-term ones, so the order of pops and pushes inside one `memorize` does not
  matter, and the model does all of each at once.
* `forgotten` and `forgottenBi` remember what was forgotten since the load, `deleted` what
  was forgotten for good: history variables that no guard reads.

Run **history**: two words, three streams, a queue of four, one clock tick of short-term
memory, every count at most two (`MaxFreq`). The queue is full after two commits, so
every commit after that evicts, and a load may bring in a queue that is cut anywhere. It
checks that a word (`CountsCoverMemory`) or pair (`PairsCoverMemory`) that was not forgotten
counts for at least its occurrences in the queue, and that a deleted word is not seen again
within the run of the process (`ForgottenWithinRun`). Across a restart it is: `forget`
leaves the id in `m_memory`, the queue is what is saved, and the counts are rebuilt from it.
That queue and file are bounded (the code tests `size() == cap` and never `>=`) is proved,
below.

### SessionFactory: views, engines and who saves what

Models `CSunpinyinSessionFactory`, the two language policies and the engines. A view is
known by its address, because `m_views` is a map ordered by pointer and `createSession`,
`nextView` and the factory's destructor walk it in that order; an address is reused.

* `views` maps an address to the view's key, whether it is in Chinese mode and which
  engine's handler and hot keys it holds; `pv` is each engine's `m_pv`; `loaded` and `cache`
  belong to the policies; `pHistory` is the static `m_pHistory`.
* An engine's constructor takes three actions (`CreateXinghuaView`, `CreateQuanpinView`,
  `CreateSession`), between which only a crash can come. `DestroyEngine`, `SwitchToChinese`,
  `SwitchToEnglish`, `Enable` and `Commit` are its handlers; `Exit`, `DestroyNext`, `Exited`
  the destructor of the factory, one view at a time.
* A cache is the set of commits it remembers (its queue is BigramHistory's subject). Using
  a destroyed view is undefined: such an engine does nothing, or the process dies.
* `LoadResources` may fail to open the file, and its policy then starts with an empty cache that is
  saved all the same. `SaveToFile`, a part of `Commit`, `DestroyEngine` and `DestroyNext`, leaves the
  file alone when it does not open for writing, writes it whole, or cuts it short anywhere: a
  full disk, or a death in the middle, for then `Crash` comes next. Nobody is told (`imi_context.cpp:485`
  ignores the result). The history variables `read` and `short` say which policies could open
  the file and whether the last write of it was cut.
* No real clock, no configuration: `Enable`'s mode and `CreateSession`'s scheme are free.

Run **session**: two engines, four addresses, two commits; engines are symmetric and
commits are made in order. Four addresses hold the views of two constructors.
It checks that what earlier processes left is not lost
(`EarlierRunsKept`): if each policy that looked for the file could open it, the file holds all of it
unless the last write was cut short, and then the cache commits go to holds it, for the next commit
to save; that all commits of a process are in the one cache the next commit saves
(`OneHistoryPerRun`), whatever became of the saves; and that
an engine which is the only one at a time always works on a live view wired to itself
(`EngineWired`). With two engines at a time it does not: they share views and the first
one destroyed takes the other's view with it. That is undefined behaviour of the program,
which no doc denies, so the property is stated for one engine at a time. Where a policy could not
open the file, its next save writes over what earlier processes left, and where a cut write is
the last of a process that part is gone: neither is claimed otherwise. Nor is it claimed that a
commit is in the file (a save may fail), and nothing is
claimed of an orderly exit: the last view destroyed may belong to the Xinghua policy,
whose cache never saw the commits, and saving it puts the file back.

### XhSegmentor and ClassicView: one input session

XhSegmentor has no variables: it gives the segmentor's operations as operators on a
record (`buf` is `m_inputBuf`, `str` is `m_inputstr`), and ClassicView and XhInput, which
hold that record, make them steps. A key is known by its class: a pattern opens a syllable,
a stroke lengthens the last segment, a separator and punctuation are segments of their own.

ClassicView is one input session. Frame f of the lattice stands after the f-th key. A
frame has its type, the flags of `m_bwType`, the start of the selected word, and the
lexicon states that end in it as (start, number of syllables). `home` names the frame
whose heap objects its pointers refer to: it differs from the frame's own number only
where the code copies pointers (a separator's frame, and `cancelSelection`'s assignment
through a reference).

* Each case of `onKeyEvent` is one action: `Insert`, `InsertAlone`, `Backspace`, `Delete`,
  the six moves, `SelectSentence`, `SelectWord`, `DeleteCandidate`, `Escape`. Each contains
  the whole handler: the edit, the rebuilding from `updatedFrom() + 1`, the search, the back
  trace and, where the code says so, the new candidate list.
* Which words exist is abstracted to lengths (`MaxSyls`, `MaxKeys`), and which of several
  paths scores best is left open, but for one thing: a chosen word multiplies the score by
  2^30000, so a best path has as many chosen words as possible.
* `fault` records that the program has run into undefined behaviour (a lexicon state
  deleted twice, the tail behind the last frame, an iterator past the end because
  `m_segPath` is empty when there is no path); the model stops there.
* `searchFrom` reads an uninitialised variable; whether the candidates are listed again is
  then a free choice (`Affects`).
* Taken at their defaults: `m_backspaceCancel`, `m_maxBest` 1, no tails, no plugins. Pages of
  the candidate window are left out.

Run **view**: keys of all four classes, a lattice of six frames (the code has 512) and so
inputs of up to four keys before the fault at the lattice's end, words of up to two
syllables, syllables of up to two keys. Inputs with both separators
and strokes are kept to three keys (`MaxMixed`): a stroke makes a segment longer and no more.
Four keys are enough for a word on either side of the one that is edited, for two choices
in a row with punctuation skipped between them, and for a syllable too long to match. It
checks that the segments are those of typing the input in one go (`SegmentsCanonical`), that
the kept part of the lattice is that of building it from scratch (`LatticeFresh`), that the
caret stays in the input and the sentence that is sent is the best path (`SentenceTiles`), and that choices
outlive typing on and choosing more (`ChoicesStand`). They need not outlive being taken back:
a word taken back with Backspace after punctuation was skipped stays selected
(`imi_context.cpp:368`), so the property does not speak of cancelling.

`SentenceTiles` speaks of sessions in which no frame has been overwritten (`OwnPointers`), for
the same line: when `cancelSelection` has put the frame of the word where the skipped punctuation
was, the word stays chosen, the user can choose a longer one across it, and no path takes both.
Two syllables, a separator, punctuation and a syllable, two choices and two keys to take back are
enough for it.

### LatticeStates: the beam of a frame

Models `CLatticeStates` and `CTopLatticeStates`. A search state is its score; `stateMap` keeps
the scores of each language model state, worst first, `heap` is `m_scoreHeap` with
`m_heapIdx`, and `size` is `m_size`. The sifting is translated as it is, with the indices
that are not refreshed and the left child taken whenever it is worse.

Run **states**: five language model states, three scores, a beam of four (the
code's `beam_width` is 48), limits 1 and 2; the states are symmetric. The heap reaches five
nodes, two levels below its top, so sifting meets nodes with two, one and no children. It
checks that map, heap, index and counter agree at every step (`HeapCoversMap`) and that each
kept entry keeps its best search state (`BestOfEachKept`). Over all entries nothing is
claimed: the stale scores in the heap can make the beam drop the best of the frame.

### PinyinData, PyTrieMaker, PinyinEdits, the three segmentors, PinyinInput

From the Pinyin dictionary to the words on offer, in one machine.

* `PinyinData` has syllables (an initial and a final, each a sequence of letters), segments and
  what all schemes share. Syllables are those of `quanpin_trie.h` and of the MS2003 plan that
  the letters in use spell.
* `PyTrieMaker` is the making of the trie: `WithLine` inserts a line of the dictionary,
  `threadNonCompletePinyin` (`ThreadNode`, one turn of its loop an action) adds the
  transitions by initials, with nodes that stand for sets of nodes and are shared by set. A
  node's file offset is its place in `m_AllNodes`; counts fit the 12 and 13 bits they have.
* `QuanpinSegmentor`, `HunpinSegmentor` and `ShuangpinSegmentor` translate `_push` of the three
  schemes (`QuanpinPush`, ...); `PinyinEdits` the edits, of the segmentor whose class is given:
  quanpin and hunpin share theirs over a `_push` of their own, shuangpin has its own.
  Inner correction (`CGetCorrectionPairOp`) is modelled; fuzzy syllables and fuzzy segments
  are not: the segmentors compute the first and nothing reads them, the second are off.
* `PinyinInput` holds the segmentor, the frames and the tail: `Push`, `Pop`, `InsertAtCaret`,
  `DeleteAtCaret` and `ClearInput` are the edits the view makes, each with the clearing of frames
  from `updatedFrom` and the forwarding of the segments behind it. `m_seg_path` and costs of
  words are left out. `fault` is as in ClassicView; "segmentor" is a segmentor that does not
  return or reads the back of an empty vector.

Run **pinyin**: every run of the eight lines of a dictionary becomes a trie (words that share
initials, a word with two readings, one listed twice, words of up to three syllables); with the
whole dictionary and two words of the user's, inputs are typed and edited: n, a, i, g with
separator and semicolon up to four keys in quanpin and hunpin, f, i, a, o, u and n, a, g up to
five keys (the letters that make quanpin's back-tracking long), shuangpin up to three. It checks
`TrieHoldsWords` (walking the trie by any syllables, whole or shortened, finds exactly the words
meant), `SegmentsTile`, `EditsAsTyped` (edits come to an end and leave what typing in one go
would), `ChangeReported` (the segmentor's `updatedFrom` is right, on which the lattice relies)
and `WordsFound` (the frames offer the words the segments spell).

Of shuangpin only the keys are claimed: `pop` of a mistyped key counts `m_nAlpha` down without
it having been counted up, and the segments after it are out of step. `EditsAsTyped` speaks
of letters only, and of quanpin only where no key sequence is corrected: what was corrected
stays so when it is edited. `WordsFound` spells from the segments, and where a segment says that what it
holds is no syllable the reference finds nothing either: so it says nothing of shuangpin, nor of
a hunpin pair over an invalid segment.

### XhTrieMaker, XhPaths, XhInput

The same for Xinghua, where a character is written as a pattern and the strokes of its
components.

* `XhTrieMaker`: `DictConv` writes words in the codes of their characters; `CXhTrieMaker` puts
  them into a tree (a unit a step), counts how often strokes repeat, copies words up to
  shorter codes and thins them out again, and links the inside of a character to the
  patterns of the next, with pseudo nodes shared by the set they stand for. Nodes are known
  by their way from the root. A character without a code lets the line repeat the next id
  in `DictConv`, as in the code.
* `XhPaths` is `pathnode.cpp` and its neighbours: branches that follow strokes and numbers
  through the trie, as sets.
* `XhInput` holds the segmentor of XhSegmentor and the frames; edits as in PinyinInput.

Run **xinghua**: two patterns, six strokes (two share a key), seven characters and fifteen words
that begin alike; patterns and strokes up to six keys, with numbers up to seven, with edits
inside the input up to five. It checks `XhWordsFound`: each frame offers the words a search
through all codes, without any trie, finds; and `FullSpellingFinds`: each word can be typed, in full
and without numbers.

What the code loses with numbers is part of the model, and of the reference: that a branch is in
the last component is forgotten after a numbered stroke (`m_InLastPartial`), a number right
after a pattern drops every branch, and a stroke is counted in three bits (`m_nStkNum` is
capped there; no component here has more than five of one stroke). A node's words are counted in
twelve bits (`Counted`), which no node here exceeds. Where words end at one of
the first two strokes of a first component, they hide those that go on (`Hidden`).

### UserDict: the user dictionary

`rows` is the database in memory, `disk` the file, `cache` the strings looked up by row, `typed`
and `shown` the query and the candidates of each session. `Type`, `LookUp`, `Commit` and
`DeleteCandidate` are what sessions do to it, with `addWord`, `removeWord`, `getWords` and
`operator []`, including saves that fail; `Quit`, `Crash` and `Load` the life of the process. A
row number that was freed is given out again while other sessions still hold it. `removeWord`
does not save, so a deletion may be undone by a crash; erasing an iterator that is `end()` ends
the model's process. SQLite is external: a copy succeeds or changes nothing. A load that fails
(`userdict.cpp:54` ignores it) leaves an empty database, which the next save writes over the file:
`unread` says that this may happen, and a word it takes away is no longer among those `kept`.

Run **userdict**: two symmetric sessions, three rows, two texts and two finals. It checks
`CacheAgrees` (the cache has the text of its row or nothing) and `WordsKept` (what reached the file
stays until deleted, or until a process that could not read the file saves: a failed load alone
loses nothing). Both are proved. There is one dictionary object per file.

### IcManager, IcPool, XimServer: the XIM server

`srv` is the server's memory as one record; each handler is a composition of operators on it.
`icm` is `ic.c`'s manager (map, free stack, current context, count up to the next
collection), `conn` IMdkit's connections with `sync` and `pending`, `shown`, `paused` and `text`
the preedit window's and the view's. `up` and `srv.down` are the X server's queues between a
client and the server, FIFO each way. `Serve(c)` is one turn of the event loop with a request
of c: all handlers of `i18nPtHdr.c` and `xim.c`, the trigger, the keys and the keys that had
waited. Clients (`Dial`, `AskForIc`, `SetValues`, `MoveFocus`, `PressTrigger`, `PressKey`, `DropIc`,
`HangUp`, `Read`) are Xlib as far as the server relies on it: they answer what must be
answered (`FORWARD` and `COMMIT` with `SYNC_REPLY`), name their windows at creation or later, and
may die without a word (`Die`). GDK's handler of X errors, the only one (`xmisc.c:81`), ends the
program: so does `XError`, at any time once there is a window the server must not speak to or ask
about. A context used unchecked where there is none ends the server too (`alive`).

The collector does not know whether the process of a context runs. It asks for the pid of the
window and keeps 16 bits of it (`ic.c:97`), and a window that is none, or gone, may count either way;
and the window of a context is the one its client named when it created it, or, when it named
none, that of the last request of anybody. So a context may be collected while its owner uses
it. `Lookups` is all that `__ic_available` may find: processes of 16 bits that run are found, and
any others may or may not be. `Wide` are the clients with a longer pid.

Run **xim**: two clients, a pool of two contexts collected every second creation, queues of two,
five requests of the first client, enough to open a context, turn it on and press a key while
another is unanswered, and three of the second, whose windows are named late and whose pid is
long. It checks

* `ContextsAccountedFor`: a context is used or free, once, and the current one is in use;
* `WaitingKeysAreOwed`: keys wait only while an answer is really under way;
* `TextCanBeSeen`: unfinished text is shown or will be shown again;
* `MaskFollowsEnabled`: the event mask a client ends up with is that of the server's `is_enabled`;
* `KeysInOrder`: keys are handled in the order pressed, none twice;
* `ImplementsPool`: `XimServer` implements `IcPool`, the abstract allocator: an identity in use is
  never handed out, the focus is in use, and a context recorded for the window of a running
  process of 16 bits is never taken back unasked. Nothing is promised to other processes, nor that
  anything is ever taken back.

One thing is not claimed: `xim.c:206` says that the focus does not move while text is
unfinished; `preedit_status` is false for text that is only hidden, so then it does, and the
text is committed in the other context.

Run **xim_live**: one client with seven requests under `FairSpec`, weak fairness of `Serve` and `Read`
per client, that is: the X server delivers, and both event loops run. It checks
`QueuedKeysHandled`: a key that has to wait is handled at last, unless its client or the server
ends.

### FrameMgr, XimValues, XimMessages: the messages

`FrameMgr` translates `FrameMgr.c`: cursors over templates and lists, sizes set beforehand,
counters, padding. `XimValues` has the templates of `i18nIMProto.c` and the values nested in
attributes (`i18nIc.c`); `XimMessages` is what each handler of `i18nPtHdr.c`, `i18nIc.c`,
`i18nAttr.c` and `i18nMethod.c` calls on a frame manager, one call a step. The reference is
`Layout`, which puts the fields of a template one after the other.

Run **messages**: all messages the server writes or reads, in both byte orders, with
strings of up to five bytes (every padding) and lists of up to three. It checks `WithinBuffer`
(no call goes past the size asked for), `WrittenAsFramed` and `ReadAsMeant`.

Xlib leaves no list empty but the second encodings list. `FrameMgrSkipToken`, `Reset`,
`SetTotalSize` and 64-bit fields are not used; the server never commits a key symbol alone, and
spot location and font set are not asked for in nested lists.

### XimServers, XimChannel, XimTransport: start and transport

`XimServers` are processes that start together: each reads the list of servers, takes the
selection, prepends itself to the list and looks at the selection again, in requests of their
own (`Begin`, `Ask`, `Claim`, `List`, `Verify`), while other input methods register; a process just
ends (`End`; nothing calls `IMCloseIM`), and the X server frees its selection but not the list.

`XimTransport` adds clients: they convert the selection, connect, and messages go as
ClientMessages of 20 bytes or as properties named by a sequence number that comes round
again, with one read offset per client (`i18nX.c`). Xlib's reading is external and one step.

A client may run ahead of the server: the mask it is given makes forwarded keys asynchronous
(`i18nMethod.c:1085-1090`), and each is a long message. Then names come round before the server has
read what they stood for, and the one offset it keeps per client no longer fits. The model goes on as
the code does: parts of messages are read, messages are dropped where nothing lies at the offset,
and where the offset lies behind the end of a property (`OutOfProperty`) the X server answers
BadValue, which ends the process. `overrun` is the history variable that says whose client
was that far ahead: it sent a long message while as many as there are names were under way.

Run **transport**, three plans: two processes, another input method and one client that looks
for them; one server with six messages up and one down; one server with two clients. A unit of
four bytes is the limit of a short message, sizes are one and two, and the sequence wraps at
`MaxSequence` 1 instead of 20, so that names come round again with three messages, and six are
enough to drop one and to reach behind the end of a property. It checks
`ServersCanBeFound`, and `ImplementsChannel`: `XimTransport` with weak fairness of both event
loops implements `XimChannel`, in which messages arrive whole, once, in order, and all of them, until
a client overruns the names; from then on nothing is promised to it.

### Fractions, IdNgrams, SimSlm, ThreadSlm, ValueCompress, SlmSeg, SlmTools

The tool chain as one machine (`SlmTools`), each tool a few actions over operators of its own
module: `ids2ngram` (`ProcessingRead`, `EndOfFile`: counting in paragraphs), `idngram_merge`
(`Merging`, `MergeNext`, `MergeEnd`), `slmbuild` (`Add`, `Shape`, `Weigh`), `slmprune` (`PruneLevel`,
`Pruned`), `slmthread` (`Compressing`, `Join`, `Thread`), `tslminfo` (`PrintText`), `tslmpack` (`Pack`),
and `slmseg` (`Segment`). Probabilities are exact fractions (`Fractions`) with an absolute
discount of a half; which items pruning removes is left open, as the distances that
decide it are real numbers; the table of back-off weights is made with the code's heap
(`ValueCompress`), that of probabilities is taken as lossless.

Run **slm**: all corpora of up to five words over three ids in two files (at most three in
the second), a lexicon of four words, one that ends a sentence and one that is excluded,
trigrams, bigrams seen once dropped unless a trigram needs them, paragraphs of two n-grams, up
to two items pruned of each level, three groups in the table, one milestone; three sentences of
three characters to cut. The denominators fit TLC's integers up to five words. It checks

* `CountsOccurrences`: the merged file has each n-gram once, in order, with its number;
* `TreeHoldsNgrams`: the arrays built from it are the tree of its prefixes, with their counts;
* `Normalised`: after pruning the probabilities after every history add up to one;
* `TableFaithful`: each weight has a group of neighbouring values, and milestones are kept;
* `ThreadedAgrees`: walking from state to state gives the probability of the pruned model (with
  the weights of the table) whatever came before, and so it does after printing and packing;
* `BestSegmentation`: `slmseg` cuts only where `mmseg` left a piece whole, and no cut beats its own.

Assumed: corpora have an n-gram; the lexicon has more words than occur; the table has room for two
groups around each milestone; numbers keep their value as text; of two texts with one id
the last is printed; `tslmpack` is given trigrams (`CArpaSlm` reads N_GRAM levels, always). Ties are
kept in the order of states. `Normalised` is of the pruned model: `CSlmBuilder::getPr`
(`sim_slmbuilder.cpp:516`) applies the weight of another node than the history's, so what
`slmbuild` alone writes need not add up; `slmprune`, which always runs, computes the weights anew.
An unknown character of `slmseg` has id 0; `ID_NOT_WORD` of `CThreadSlm`, which goes to the root at
no cost, is 69, and no word of the run has that id. Reading of sentences from text is left out.

## What is proved

`BigramHistoryProofs`, from `HistoryAssumption` alone (the separator is no word, the queue
has room for two, streams are not empty): for every set of words and streams, every
capacity and every short-term time,

* `MemoryIsBounded`: the type invariant and `MemoryBound`, together inductive. Each needs the
  other: a bounded file keeps a load from overfilling the queue, and `Evicted` makes room
  only while the queue is not already too long.
* `CountsCover` and `PairsCover`: inductive relative to the first. The argument is about
  `memorize`: what is popped and what stays partition the stream (`OccConcat`,
  `PairOccSplit`), a pop takes at most one from one pool, and a push always adds one.
* `ForgottenStaysOut`: its strengthening says that a deleted word's entry is exactly
  absent, which aging and eviction preserve.

`SessionFactoryProofs`, from `SessionAssumption` (addresses are finitely many naturals, the
special values are distinct): for any number of engines, addresses and commits,

* `EarlierRunsAreKept` and `OneHistory`, both from one inductive invariant
  `HistoryInv`. `LoadOrder` says in which order the two policies can have been loaded;
  `Caches` says that a cache that was read holds what the file held, that only the cache of the
  policy loaded last (`Target`) holds more, and that nothing is saved before both were
  tried. The last part is what a save between two constructors would break. What the file holds
  it says only while the last write was whole and every policy could read (`AllRead`); what the
  caches hold, always.
* `EngineStaysWired`, from `WiredInv`: without two engines at once, no engine exists while
  another is constructed, so all left-over views are wired to the newest engine.

`UserDictProofs`, from `UserDictAssumption`: for any sessions, texts, initials, finals and number of
rows,

* `TypeCorrect`, `CacheIsCurrent` and `SavedWordsStay`, from one inductive invariant `IInv`
  (`Invariance`). To what is claimed it adds that no two rows of memory or file have the
  same initials and text, so that a deletion takes one word away and no more (`DeletedRow`);
  that the words kept are also in memory while a process runs that could read the file, so that
  the next save does not take them away (`AddedRow`); and that no cache outlives the process.

`XimServerProofs`, from `IcAssumption` (there are finitely many clients; the special values are
none of them): for any number of clients, contexts, connections and requests, and any period of
the collector,

* `XimInvariant`: the inductive invariant `XimInv`. Its first half is about the server's memory
  alone: `PoolOK` (each context is mapped or on the free stack, once, and the current one is
  mapped) and `Visible` (text is on the screen or hidden for a pause). Its second half, `Proto`
  and `Waits`, holds while the server runs and ties each client to what is on its way to it:
  who has the turn to speak (`TakesTurns`), that keys are numbered in order in the queue of the
  display, in the connection's and against what was handled (`Numbered`, `QueuesNumbered`), that a
  connection which waits is owed an answer (`AnswerOwed`), and that the mask the client knows,
  changed by what it has not read yet, is the server's (`MasksTold`). The claims checked by run
  **xim** speak of one part each, and none of them is inductive alone: a key handled out of the
  queue may turn a context off, which is a mask message, or take the focus from another.
* from it `ContextsStayAccountedFor`, `TextStaysVisible`, `NoKeyWaitsForNothing`, `MasksFollow`,
  `KeysStayInOrder` (the action property) and `PoolImplemented` (`Spec => IcPool's Spec`): every
  step maps to a step or stutter of the abstract pool, whatever `Lookups` finds.
* What a handler does to the pool is stated once per function of `ic.c`; handlers compose them,
  and `Follows` says what each composition leaves alone. The loops, the collector's over all
  contexts and `ProcessQueue`'s over the waiting keys, are recursive functions in the model; their
  lemmas are proved by induction over the number of turns.

`XimTransportProofs`, from `TransportAssumption`: for any number of processes, clients and
messages, any sizes of messages and any number of names,

* `OwnersAreFound`, from `StartInv`: an owner of the selection that is not on the list is about
  to put itself there (`OwnerServes`), and an input method listed once stays so.
* `BytesInPlace`: the inductive invariant `TransportInv`. The events in a queue announce the
  messages under way one by one (`Carried`); the long ones lie in the properties their events
  name, in the order they were sent, one right behind the other, from where the reader's offset
  points (`Laid`); and their names are those of numbers counted back from the sender's counter
  (`Named`). The counter takes one value more than there are names, and its last value has the name
  0 again; while no more than `MaxSequence + 1` messages are under way, only two can share a name,
  one right after the other, and the offset is not zero only before the second of two such. All
  this is claimed of clients that have not overrun the names (`Intact`); of the others only that
  nothing is left of a connection once it has ended (`Standing`), from which the next begins.
* `MessagesCarried`: every step of the transport is a step or a stutter of `XimChannel`, whose
  messages are whole, in order, and never made up, and which a client that overruns the names
  leaves. That they all arrive needs fairness: `FairSpec`
  implements `Channel!FairSpec` is checked by run **transport** and not proved.

`LatticeStatesProofs`, from `LatticeStatesAssumption` (scores are naturals, beam and limits at
least one): for any states and scores, any beam and any limits, changed at any time,

* `FrameInvariant`: the inductive invariant `LatticeInv`. To what is claimed it adds that lists
  fall and keep within the limit they were made with, that each language model state has one
  node, and that `m_heapIdx` knows exactly the states with a node. The order of the heap is not
  part of it, and could not be: scores in nodes go stale and one child is not looked at. Nor is
  it part of it that an index points to its node, which is false; sifting from a wrong place
  changes places of nodes and no more (`AdjustedUpHeap`, `AdjustedDownHeap`).
* `HeapAlwaysCoversMap` and `BestIsKept` follow.

`ClassicViewProofs`, from `SegmentorAssumption` and `ViewAssumption`, and for behaviours whose input
always fits the field of a segment's length (`FitsField`, the hypothesis of each theorem: the
8 bits of `m_len` hold 255 while the lattice has room for 510 keys, and all of them may be strokes of
one segment; in run **view** the lattice ends long before): for any lattice, any length of words and
syllables, and whichever best path each search takes,

* `ViewInvariant`: the inductive invariant `ViewInv`, which no longer mentions the history of
  edits. Of the segmentor it says that the segments cut the input (`Cuts`) and that `updatedFrom`
  lies inside no segment (`Between`). Of the lattice: the frames behind the input are clear
  (`ClearBehind`), or an edit that makes the input longer would find old words there; a word is
  marked only in a frame where it ends (`MarksFit`); a frame's pointers are its own or those of a
  frame before it, and where a separator ends there is the frame of a separator (`Pointers`); and as far as all pointers are a frame's own, frames are those
  of the whole lattice (`Kept`). Of the view: the caret is in the input, candidates are words
  of the lattice (`Choosable`).
* `SegmentsStayCanonical`: segments that cut an input are those of typing it in one go
  (`CutsAreReference`), and every edit leaves segments that cut the input (`PushedCuts`,
  `PoppedCuts`, `InsertedCuts`, `DeletedCuts`). The last three cut again from the segment of the edit
  on (`CutAgainCuts`): pushing a key may reach back into the segment before it, which is why
  `updatedFrom` is the least of what the pushes return.
* `LatticeStaysFresh`: a frame of the lattice depends only on the segments up to it
  (`SamePrefix`), an edit changes no segment up to `updatedFrom` (`SameUpTo`), and what is cleared and
  forwarded again behind it is what forwarding from the first frame would make (`RelaidAgrees`).
* `CaretStaysInside`: the lattice ends where the input does, and the caret stays in it.
* `ChoicesKeepStanding` (the action property `ChoicesStand`), from `ViewInv` and `ChosenInv`: chosen
  words end at or before the frame where the next choice starts, and before every candidate, so
  that choosing one more marks another frame; and typing on in a new segment rebuilds frames
  behind the old input only, none of which holds a choice.

The same module proves of the sentence, from the same assumptions and for the same behaviours:

* `SentenceStaysTiled` (the invariant `SentenceTiles`): as long as no frame has been overwritten,
  the words a conversion sends are those of the path the search found, which cover the input once.
  It is proved from `ViewInv` and `SentenceInv`, in three parts.
* What the lattice offers (`IsLadder`). A frame is live if a path may pass it: all ends of segments
  are (`Live`), but for one a separator follows, which the frame of the separator stands for.
  Words start in live frames only, and where words end in a live frame, one of them starts in the
  live frame before. So if the chosen words that end
  in live frames do not overlap (`Apart`), a path goes through all of them (`ChosenPath`); it has
  the most bonus a path can have, and a best path, which has no less, takes them all too
  (`BestPathTakesChosen`).
* What keeps chosen words apart (`Trail`): a set of frames through which the marks lead back to the
  first frame, word by word (`LeadsBack`); all choices end on it, at or before the frame where
  the next choice starts, and every candidate starts on it. Choosing a word takes the
  words it covers off the trail, an edit cuts the trail where it rebuilds the lattice, moving the
  caret moves only along the path. The second conjunct of `SentenceInv`, `OnPath`, says that
  the marks of the best words lie along the path of the last search.
* Where a frame was overwritten the trail may break. That is seen in the pointers (`Overlaid`): the
  frame shares those of a frame before it, until it is cleared. So `Traced` claims a trail while
  each frame has its own (`Own`), and `Overlaid` otherwise; no handler gives a frame its own pointers
  back without clearing it.
* At last, the loop of `getBestSentence` goes back from each frame of the path to the one before
  (`SentenceCourse`), which makes its words those of the path (`SentenceOfPath`).

`PinyinInputProofs`, from `SyllablesAssumption`, `InputAssumption` and `CorrectionAssumption`
(letters typed by mistake are put right to no more letters, and to some): for any syllables, any
plan of shuangpin, any table of corrections and inputs of any length, by the inductive invariant
`PinyinInv`. It says that the segments follow each other from the first key to the last unless
the scheme is shuangpin (`Tiles`), that the keys are those of the input buffer (`Held`), and that
these can all be typed. `SegmentsTile` speaks of sums of lengths; the invariant speaks of where
segments start and end, which is what an edit keeps, and `TiledKeys` makes the one of the other.

* `SegmentsStayTiled` (the invariant `SegmentsTile`). Of the pushes of quanpin and hunpin it is
  proved that they replace some of the last segments by segments over the same keys and the new
  one (`Covers`), and that `updatedFrom` is no further than where these start (`Told`). For
  quanpin that rests on an invariant of the loop that makes room for a syllable
  (`MoreRoomKeeps`): the new segments cover the `lsum` last keys and the given-up ones the `isum`
  last, so where the two agree there is no gap. For hunpin it rests on a pair being written over
  a segment of one key only, so that hunpin's push always cuts, whatever is typed; of quanpin this
  is not so for every list of syllables, see below. An edit is then a cut between two
  segments and a course of pushes
  (`Cuts`, `Updates`), and a correction two of those (`CorrectedHeld`).
* `ChangesAreReported` (the action property `ChangeReported`, for quanpin under the hypothesis
  that the keys typed make no mistyped syllable): the segments that start before `updatedFrom` are
  those that were there. Without the hypothesis it does not hold for every table of corrections:
  with one made up for the purpose (ng put right to ai) TLC finds a correction that changes an
  earlier segment and does not report it. With the pairs of run **pinyin**, like those the front
  ends offer, it holds, corrections included, as TLC shows.

How loops are proved. The provers used cannot instantiate an induction theorem whose parameter is
an operator, so induction is used for sets of numbers: `SetInduction` and `NumbersFromZero`, proved from
the well-foundedness of `<`. A recursive function (`f[n \in S] == ...`) is first shown to exist as a course of values
(`ScanCourse`, `QueueCourse`, `Course`), and what holds of
it by induction over its length, or by looking at the least number for which it does not hold
(`LeastNumber`). This reaches definitions that go down by one; it does not
reach `RECURSIVE` operators, nor folds of the community modules.

Only model-checked, and why:

* `QueuedKeysHandled`, `ImplementsChannel`: liveness.
* `WithinBuffer`, `WrittenAsFramed`, `ReadAsMeant`: the frame manager is recursion over
  templates that nest.
* The properties of `XhInput` and `SlmTools`: tries, paths and models of any depth, made with
  `RECURSIVE` operators, and compared with references that are recursive themselves.
* `EditsAsTyped`: that quanpin always comes to an end, and cuts an edited input as if it had been
  typed in one go, depends on the list of syllables: that the beginnings of one can be cut into
  others. It is not true of every list.
* `TrieHoldsWords`, `WordsFound`: the trie and its threads are folds over the dictionary, and what
  frames offer is compared with folds over the segments.
* `ChangeReported` where quanpin puts a mistyped syllable right.
* `SentenceTiles` once the input is longer than the field of a segment's length, as everything
  proved of the session: see `FitsField`.

## Where the code and its comments part

Met while modelling. The models contain this behaviour as it is, and the properties are
stated around it; runs that ended in these counterexamples existed in an earlier state of
the project, and no run of the present one repeats them.

* `forget(wid)` clears the pools and leaves the id in `m_memory`, which is saved and counted
  again by the next load (`ic_history.cpp:430`); `ic_history.h:101` says "remove a word id from
  history cache".
* `destroyContext` saves the cache of the view's own policy (`lang_policy_cn.cpp:83`) while
  commits went to the cache of the context made last: an orderly exit may write the stale one last.
* `cancelSelection` assigns through a reference where it means to move it
  (`imi_context.cpp:368`): the chosen word stays `USER_SELECTED`, another can be chosen over it,
  and then the sentence and the best path differ.
* Without a path `getBestSegPath` gives the empty one (`imi_context.h:114`); the comment at line
  118 promises the original segments.
* `CLatticeStates::add` leaves the old score in the heap when an entry gets better
  (`lattice_states.cpp:103`), so the beam may drop the best entry; `lattice_states.h:93` says that
  the best are kept.
* `_xim_set_ic_focus` moves the focus when unfinished text is only hidden (`xim.c:207`), against
  the comment above it.

## What is not modelled

* Scores and probabilities of the running input method: abstracted to what the properties tell
  apart (a chosen word's bonus, an order, exact fractions in the tools).
* Two contexts that both hold pending input in the one static lattice; the composition of the
  user dictionary with the history (a reused row number inherits the counts of its word id).
* The option event bus (its list does not change after start-up), a history file that opens
  and is read in part, the order and pages of
  candidates, plugins (embedded Python), full-width characters and punctuation, the window
  handler (callbacks to the desktop), the Xinghua view (no policy makes one).
* Fuzzy pinyin: what the segmentors compute of it is not read.
* `tslmendian`, `slminfo`, `getwordfreq`, `idngram_merge` as a program of its own, the reading and
  writing of files and of character encodings.
* In IMdkit: the TCP and DECnet transports' stubs, calls no server of this repository makes
  (`IMCloseIM`, preedit callbacks, `GetValues` of the server). The drawing of windows.
* The scim, macOS and GTK front ends make the ibus engine's calls in other desktops' terms.
* Data files, importers in Python, packaging.

## The plan

Done, in this order: BigramHistory, SessionFactory, XhSegmentor with ClassicView, LatticeStates;
the XIM server with its pool, messages and transport; the user dictionary; Pinyin and Xinghua
from dictionary to words; the model tools; proofs of the history, the factory, the user
dictionary, the XIM server, its transport, the search states of a frame, the input session with
its sentence, and the Pinyin segmentors.
Left:

1. LineEditor, the abstract specification of an input session (an input, a caret, a list
   of choices), which ClassicView implements under a refinement mapping.
2. CandidateList: merging and paging, composed with ClassicView's candidates.
3. UserDict composed with BigramHistory, to follow a word id through deletion and reuse.
4. Plugins and their deferred updates; byte-order conversion.
