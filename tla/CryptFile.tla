----------------------------- MODULE CryptFile -----------------------------
(***************************************************************************)
(* CryptFile (crypt/src/cryptfile.cpp): a file kept as encrypted chunks.   *)
(* The plain bytes are cut into a first chunk and chunks of one size; each *)
(* is encrypted by itself and stored at a place computed from its number.  *)
(* The object keeps decrypted chunks in an LRU cache (or one single chunk) *)
(* and writes dirty ones back when they are displaced, when the last chunk *)
(* is left and when the file is flushed; the header holds the two sizes.   *)
(* In streaming mode the last chunk is encrypted and written at each write *)
(* and the sizes are derived from the length of the raw file.              *)
(*                                                                         *)
(* Calls run one at a time (every user holds a mutex), so a call is one    *)
(* step: the operators below compute the state record s after it, in the   *)
(* order of the code, with s.err set where the code returns or throws.     *)
(* Encryption is abstracted to its length: Overhead more bytes per chunk.  *)
(***************************************************************************)
EXTENDS Integers, Sequences, SequencesExt, FiniteSetsExt

CONSTANTS FirstChunk,     \* first_chunk_max_size (bytes)
          Chunk,          \* chunk_max_size (bytes)
          Overhead,       \* what packing adds to a chunk: size prefix, IV, tag
          CacheCapacity,  \* maxCachedChunks()
          Values,         \* the non-zero bytes a caller writes
          MaxSize,        \* bound: no call makes the file longer than this
          MaxWrite,       \* bound: bytes of one write or read
          MaxCalls,       \* bound: calls of one behaviour
          Avoided         \* the irregular calls (see May) callers refrain from

ASSUME CryptFileAssumption ==
    /\ {FirstChunk, Chunk, Overhead, CacheCapacity} \subseteq Nat \ {0}
    /\ {MaxSize, MaxWrite, MaxCalls} \subseteq Nat
    /\ 0 \notin Values

VARIABLES s,       \* the members of the object, the raw file and the call's error
          last,    \* the last call: what was asked for and the bytes it moved
          calls    \* number of calls made

vars == <<s, last, calls>>

--------------------------------------------------------------------------
(* Places: plain positions, chunk numbers, raw positions (after the header).*)

MaxPlainChunkSize(k) == IF k = 0 THEN FirstChunk ELSE Chunk
MaxPackedChunkSize(k) == MaxPlainChunkSize(k) + Overhead

PosToSeqnum(pos) ==
    IF pos < FirstChunk THEN 0 ELSE 1 + (pos - FirstChunk) \div Chunk

SeqnumToPos(k) == IF k = 0 THEN 0 ELSE FirstChunk + (k - 1) * Chunk

SeqnumToRawPos(k) ==
    IF k = 0 THEN 0 ELSE MaxPackedChunkSize(0) + (k - 1) * MaxPackedChunkSize(k)

ChunkOffsetForPos(pos) == pos - SeqnumToPos(PosToSeqnum(pos))

--------------------------------------------------------------------------
(* The object.                                                             *)

IsWriteMode(f) == f.mode \notin {"read", "scan"}
IsAppend(f) == f.mode = "append"
UseCache(f) == f.cached /\ ~f.streaming /\ f.mode \notin {"scan", "append"}

NewChunk(k) == [seqnum |-> k, dirty |-> FALSE, csize |-> 0, streamed |-> 0, content |-> <<>>]

\* m_currentChunk: the single chunk, or the most recently used of the cache.
\* Its offset is always the distance of m_cursor from the chunk's beginning.
Current(f) == IF f.cur = "single" THEN f.single ELSE Last(f.cache)
SetCurrent(f, c) ==
    IF f.cur = "single" THEN [f EXCEPT !.single = c]
                        ELSE [f EXCEPT !.cache = Append(Front(@), c)]
Offset(f) == f.cursor - SeqnumToPos(Current(f).seqnum)
IsLastChunk(f, c) == c.seqnum = f.eof

\* An early return: the rest of the call runs only when nothing failed so far.
Failed(f, err) == [f EXCEPT !.err = err]
Then(f, Rest(_)) == IF f.err = "ok" THEN Rest(f) ELSE f

--------------------------------------------------------------------------
(* The raw file: the plain bytes of each stored chunk, its length and the   *)
(* sizes in the header.                                                     *)

RawWrite(raw, k, bytes) ==
    [raw EXCEPT !.chunks = IF k < Len(@) THEN [@ EXCEPT ![k + 1] = bytes] ELSE Append(@, bytes),
                !.len = Max({@, SeqnumToRawPos(k) + Len(bytes) + Overhead})]

\* A chunk the truncation cuts cannot be decrypted any more.
RawTruncate(raw, n) ==
    LET whole == {i \in DOMAIN raw.chunks :
                    SeqnumToRawPos(i - 1) + Len(raw.chunks[i]) + Overhead <= n}
    IN  [raw EXCEPT !.len = n, !.chunks = SubSeq(@, 1, Cardinality(whole))]

\* seekReadRawChunk: the checks made before any access to chunk k ...
RawAccess(f, k) ==
    IF f.raw.len < f.csize THEN "INVALID_SIZE"
    ELSE IF SeqnumToRawPos(k) > f.csize THEN "invalid_seek"
    ELSE "ok"

\* ... and its reading of the chunk: at most what the ciphertext size leaves.
\* The size prefix of a packed chunk tells where it ends; a streamed one is
\* as long as what is read.  A chunk to be overwritten is not read at all.
ReadRawChunk(f, k, overwrite) ==
    LET size   == Min({MaxPackedChunkSize(k), f.csize - SeqnumToRawPos(k)})
        stored == f.raw.chunks[k + 1]
        chunk(bytes) == [NewChunk(k) EXCEPT !.csize = size, !.content = bytes]
    IN  IF RawAccess(f, k) # "ok" THEN [err |-> RawAccess(f, k), chunk |-> NewChunk(k)]
        ELSE IF size = 0 THEN [err |-> "ok", chunk |-> NewChunk(k)]
        ELSE IF overwrite THEN [err |-> "ok", chunk |-> chunk(<<>>)]
        ELSE IF k >= Len(f.raw.chunks) \/ (Len(stored) + Overhead > size /\ ~f.streaming)
             THEN [err |-> "UNPACK_FAILED", chunk |-> NewChunk(k)]
        ELSE [err |-> "ok", chunk |-> chunk(SubSeq(stored, 1, Min({Len(stored), size - Overhead})))]

\* A bug: the ciphertext size is forgotten in the header.
WriteSizePlainOnly(f) ==
    IF f.sizeDirty /\ ~f.streaming
    THEN [f EXCEPT !.raw.size = f.size, !.sizeDirty = FALSE]
    ELSE f

WriteSize(f) ==
    IF f.sizeDirty /\ ~f.streaming
    THEN [f EXCEPT !.raw.size = f.size, !.raw.csize = f.csize, !.sizeDirty = FALSE]
    ELSE f

--------------------------------------------------------------------------
(* Flushing.                                                               *)

\* The chunk c put back where the object holds it.
Stored(f, c) ==
    [f EXCEPT !.cache = [i \in DOMAIN @ |-> IF @[i].seqnum = c.seqnum THEN c ELSE @[i]],
              !.single = IF f.cur = "single" THEN c ELSE @]

FlushChunk(f, c) ==
    IF RawAccess(f, c.seqnum) # "ok" THEN Failed(f, RawAccess(f, c.seqnum))
    ELSE LET packed == Len(c.content) + Overhead IN
         Stored([f EXCEPT !.raw = RawWrite(@, c.seqnum, c.content),
                          !.csize = @ + packed - c.csize],
                [c EXCEPT !.csize = packed, !.dirty = FALSE])

FlushLastChunk(f) ==
    IF f.cur # "none" /\ Current(f).dirty /\ IsLastChunk(f, Current(f))
    THEN FlushChunk(f, Current(f)) ELSE f

\* The cache is flushed in the order of its map, by chunk number; without
\* a cache there is only the current chunk.
DoFlush(f) ==
    LET held == IF f.cache # <<>> THEN {f.cache[i] : i \in DOMAIN f.cache}
                ELSE IF f.cur # "none" THEN {Current(f)} ELSE {}
        dirty == SetToSortSeq({c \in held : c.dirty}, LAMBDA a, b : a.seqnum < b.seqnum)
        flushed == FoldLeft(LAMBDA g, c : Then(g, LAMBDA h : FlushChunk(h, c)), f, dirty)
    IN  IF ~f.open \/ ~IsWriteMode(f) THEN f ELSE Then(flushed, WriteSize)

--------------------------------------------------------------------------
(* doSeek: make the chunk of a position the current one.                   *)

\* The chunk that has been found or filled becomes current.
Entered(f, where, pos) ==
    [f EXCEPT !.cur = where, !.cursor = pos, !.eof = Max({@, PosToSeqnum(pos)})]

\* The chunk that was read takes its place, that of the oldest if the cache
\* is full.
Filled(f, pos, read, withCache) ==
    LET held == IF withCache
                THEN [f EXCEPT !.cache = Append(IF Len(@) = CacheCapacity THEN Tail(@) ELSE @, read.chunk)]
                ELSE [f EXCEPT !.single = read.chunk]
    IN  IF read.err # "ok" THEN Failed(held, read.err)
        ELSE Entered(held, IF withCache THEN "cache" ELSE "single", pos)

\* A bug: the displaced chunk is dropped without being flushed.
FillChunkUnflushed(f, pos, overwriteSize, withCache) ==
    Filled(f, pos, ReadRawChunk(f, PosToSeqnum(pos), FALSE), withCache)

\* A chunk that is not held: a cache that is full first flushes the chunk it
\* displaces; the new chunk stays in the cache even when it cannot be read.
FillChunk(f, pos, overwriteSize, withCache) ==
    LET k     == PosToSeqnum(pos)
        total == ChunkOffsetForPos(pos) = 0 /\ overwriteSize >= MaxPlainChunkSize(k)
        displaces == withCache /\ Len(f.cache) = CacheCapacity
    IN  Then(IF displaces /\ Head(f.cache).dirty THEN FlushChunk(f, Head(f.cache)) ELSE f,
             LAMBDA g : Filled(g, pos, ReadRawChunk(g, k, total), withCache))

\* The current chunk is left; the one of the position is in the cache or not.
EnterChunk(f, pos, overwriteSize, withCache) ==
    LET inCache == {i \in DOMAIN f.cache : f.cache[i].seqnum = PosToSeqnum(pos)}
        touched == LET i == CHOOSE i \in inCache : TRUE
                   IN  [f EXCEPT !.cache = Append(RemoveAt(@, i), @[i])]
    IN  IF withCache /\ inCache # {} THEN Entered(touched, "cache", pos)
        ELSE FillChunk(f, pos, overwriteSize, withCache)

DoSeek(f, pos, overwriteSize, withCache) ==
    IF ~f.open THEN Failed(f, "FILE_NOT_OPEN")
    ELSE IF (IF IsAppend(f) THEN pos # f.size ELSE pos > f.size) THEN Failed(f, "invalid_seek")
    ELSE IF f.cur # "none" /\ Current(f).seqnum = PosToSeqnum(pos) THEN [f EXCEPT !.cursor = pos]
    ELSE Then([FlushLastChunk(f) EXCEPT !.cur = "none"],
              LAMBDA g : EnterChunk(g, pos, overwriteSize, withCache /\ UseCache(f)))

--------------------------------------------------------------------------
(* Opening and closing.                                                    *)

\* doClose without the flush; m_sizeDirty is not among what it resets.
Reset(f) ==
    [f EXCEPT !.open = FALSE, !.mode = "scan", !.cursor = 0, !.seek = 0, !.size = 0,
              !.csize = 0, !.eof = 0, !.cur = "none", !.single = NewChunk(0), !.cache = <<>>]

DoClose(f) == Reset(DoFlush(f))

\* The plain size of a streamed file, from the length of its raw data.
StreamedSize(len) ==
    LET rest == len - MaxPackedChunkSize(0)
        rem  == rest % MaxPackedChunkSize(1)
    IN  IF len < MaxPackedChunkSize(0) THEN Max({len - Overhead, 0})
        ELSE FirstChunk + (rest \div MaxPackedChunkSize(1)) * Chunk
                        + (IF rem = 0 THEN 0 ELSE rem - Overhead)

IsNewFile(f, mode) == mode = "write" \/ (mode = "append" /\ ~f.raw.exists)

\* The header is written, then an empty first chunk and the sizes.
OpenNew(f, streaming) ==
    LET fresh == [f EXCEPT !.streaming = streaming, !.eof = 0,
                           !.raw = [exists |-> TRUE, streaming |-> streaming, size |-> 0,
                                    csize |-> 0, chunks |-> <<>>, len |-> 0]]
        begun(g) == [SetCurrent(g, [Current(g) EXCEPT !.dirty = TRUE]) EXCEPT !.sizeDirty = TRUE]
    IN  Then(DoSeek(fresh, 0, 0, TRUE),
             LAMBDA g : IF streaming THEN g
                        ELSE Then(FlushChunk(begun(g), Current(begun(g))), WriteSize))

\* The header is read, then the first or, to append, the last chunk.
OpenExisting(f) ==
    LET st   == f.streaming
        size == IF st THEN StreamedSize(f.raw.len) ELSE f.raw.size
        read == [f EXCEPT !.size = size, !.eof = PosToSeqnum(size),
                          !.csize = IF st THEN f.raw.len ELSE f.raw.csize]
    IN  IF read.raw.len < read.csize THEN Failed(f, "INVALID_CRYPTFILE_FORMAT")
        ELSE DoSeek(read, IF IsAppend(f) THEN size ELSE 0, 0, TRUE)

\* What is thrown closes the file.
ClosedOnError(f) == IF f.err = "ok" THEN f ELSE Reset(f)

WrongMode(streaming, mode) == streaming /\ mode \notin {"append", "scan"}

\* The mode is checked against the streaming mode the object was told or has
\* left from an earlier file, and again once the header of an existing file
\* has told its own: the second time the error is returned, not thrown, and
\* the file stays open.
DoOpen(f, mode, streaming) ==
    LET opened == [f EXCEPT !.open = TRUE, !.mode = mode]
        header == [opened EXCEPT !.streaming = f.raw.streaming]
    IN  IF WrongMode(streaming, mode) THEN Failed([f EXCEPT !.mode = mode], "INVALID_STREAM_FILE_MODE")
        ELSE IF IsNewFile(f, mode) THEN ClosedOnError(OpenNew(opened, streaming))
        ELSE IF WrongMode(f.raw.streaming, mode)
             THEN Failed([header EXCEPT !.size = f.raw.size, !.csize = f.raw.csize],
                         "INVALID_STREAM_FILE_MODE")
        ELSE ClosedOnError(OpenExisting(header))

--------------------------------------------------------------------------
(* Reading and writing.                                                    *)

\* As much as fits goes into the current chunk.  The size grows by what the
\* last chunk grows.
WritePiece(turn, g, data) ==
    LET c     == Current(g)
        n     == Min({Len(data) - turn.done, MaxPlainChunkSize(c.seqnum) - Offset(g)})
        piece == SubSeq(data, turn.done + 1, turn.done + n)
        head  == SubSeq(c.content \o [i \in 1..(Offset(g) + n) |-> 0], 1, Offset(g))
        bytes == head \o piece \o SubSeq(c.content, Offset(g) + n + 1, Len(c.content))
        grown == IF IsLastChunk(g, c) THEN Len(bytes) - Len(c.content) ELSE 0
        prefix == IF c.streamed = 0 /\ c.content = <<>> THEN Overhead ELSE 0
        moved == [g EXCEPT !.size = @ + grown, !.cursor = @ + n,
                           !.sizeDirty = @ \/ grown > 0]
        streamed ==
            [SetCurrent(moved, [c EXCEPT !.content = bytes, !.csize = @ + grown + prefix,
                                         !.streamed = Offset(g) + n])
               EXCEPT !.raw = RawWrite(@, c.seqnum, bytes), !.csize = @ + grown + prefix]
    IN  IF g.err # "ok" THEN [turn EXCEPT !.f = g]
        ELSE [done |-> turn.done + n,
              f |-> IF g.streaming /\ IsLastChunk(g, c) THEN streamed
                    ELSE SetCurrent(moved, [c EXCEPT !.content = bytes, !.dirty = TRUE])]

\* One turn of the loop of writeImpl: into the next chunk if this one is
\* full, then the next piece.
WriteTurn(turn, data) ==
    LET k    == Current(turn.f).seqnum
        full == Offset(turn.f) = MaxPlainChunkSize(k)
    IN  WritePiece(turn, IF full THEN DoSeek(turn.f, SeqnumToPos(k + 1), Len(data) - turn.done, TRUE)
                                 ELSE turn.f, data)

WriteImpl(f, data) ==
    LET turns == FoldLeft(LAMBDA turn, i : IF turn.f.err # "ok" \/ turn.done = Len(data)
                                           THEN turn ELSE WriteTurn(turn, data),
                          [f |-> f, done |-> 0], data)
    IN  Then(turns.f, LAMBDA g : IF g.cursor > g.size THEN Failed(g, "ASSERT") ELSE g)

NothingLeft(f) == Len(Current(f).content) = Offset(f)

ReadPiece(turn, g, n) ==
    LET m == Min({n - Len(turn.bytes), Len(Current(g).content) - Offset(g)})
    IN  IF g.err # "ok" \/ NothingLeft(g) THEN [turn EXCEPT !.f = g]
        ELSE IF Offset(g) > Len(Current(g).content) THEN [turn EXCEPT !.f = Failed(g, "OVERRUN")]
        ELSE [f |-> [g EXCEPT !.cursor = @ + m],
              bytes |-> turn.bytes \o SubSeq(Current(g).content, Offset(g) + 1, Offset(g) + m)]

\* One turn of the loop of read: until the end, or what was asked for.
ReadTurn(turn, n) ==
    IF Len(turn.bytes) = n \/ turn.f.cursor = turn.f.size \/ turn.f.err # "ok" THEN turn
    ELSE ReadPiece(turn, IF NothingLeft(turn.f) THEN DoSeek(turn.f, turn.f.cursor, 0, TRUE)
                         ELSE turn.f, n)

ReadLoop(f, n) ==
    FoldLeft(LAMBDA turn, i : ReadTurn(turn, n), [f |-> f, bytes |-> <<>>], [i \in 1..n |-> i])

--------------------------------------------------------------------------
(* truncateImpl.                                                           *)

Zeros(n) == [i \in 1..n |-> 0]

\* Growing: zeros are written at the end and the old cursor is restored.
Extend(f, n) ==
    Then(Then(DoSeek(f, f.size, 0, TRUE), LAMBDA g : WriteImpl(g, Zeros(n - f.size))),
         LAMBDA g : DoSeek(g, f.cursor, 0, TRUE))

\* A bug: the ciphertext size keeps the chunks that are cut off.
CutTurnKeepsCiphertext(turn) ==
    LET c == Current(turn.f)
        g == DoSeek(turn.f, SeqnumToPos(c.seqnum + 1), 0, FALSE)
    IN  IF turn.end \/ turn.f.err # "ok" THEN turn
        ELSE [turn EXCEPT !.size = @ - Len(c.content), !.rawLen = @ - c.csize,
                          !.end = IsLastChunk(turn.f, c),
                          !.f = IF IsLastChunk(turn.f, c) THEN @ ELSE g]

\* The loop over the chunks from the cut on: what the plain size, the
\* ciphertext size and the raw file lose with each of them.
CutTurn(turn) ==
    LET c == Current(turn.f)
        g == DoSeek(turn.f, SeqnumToPos(c.seqnum + 1), 0, FALSE)
    IN  IF turn.end \/ turn.f.err # "ok" THEN turn
        ELSE [size |-> turn.size - Len(c.content), csize |-> turn.csize - c.csize,
              rawLen |-> turn.rawLen - c.csize, end |-> IsLastChunk(turn.f, c),
              f |-> IF turn.rawLen < c.csize THEN Failed(turn.f, "INVALID_SIZE")
                    ELSE IF IsLastChunk(turn.f, c) THEN turn.f ELSE g]

CutLoop(f) ==
    FoldLeft(LAMBDA turn, i : CutTurn(turn),
             [f |-> f, size |-> f.size, csize |-> f.csize, rawLen |-> Min({f.raw.len, f.csize}),
              end |-> FALSE],
             Zeros(f.eof + 1))

\* The guard of truncateImpl puts the copy back, if there is one, when an
\* error was assigned after the work had begun to change the file.
RestoredOnError(f, undo) ==
    IF f.err = "ok" \/ ~undo.backup THEN f
    ELSE [DoSeek(DoOpen([Reset(f) EXCEPT !.err = "ok", !.raw = undo.raw],
                        "write_existing", f.streaming), undo.cursor, 0, TRUE)
            EXCEPT !.seek = undo.seek, !.err = f.err]

\* writeSize() that may fail after the first of its two values.
WriteSizeOr(f, fault) ==
    IF fault = "header" THEN Failed([f EXCEPT !.raw.size = f.size], "FILE_WRITE_FAILED")
                        ELSE WriteSize(f)

\* The chunks after the cut, with what is lost in loop, are dropped: the
\* header is written first and the raw file truncated after it, and the kept
\* bytes of the cut chunk are appended again; they reach the raw file with a
\* later flush.  Up to here an error is returned as it is.
Drop(at, loop, n, fault, undo) ==
    LET kept  == SubSeq(Current(at).content, 1, Min({Len(Current(at).content), Offset(at)}))
        sized == [loop.f EXCEPT !.size = loop.size, !.csize = loop.csize, !.sizeDirty = TRUE,
                                !.eof = Current(at).seqnum]
        dropped(g) ==
            IF fault = "truncate" THEN Failed(g, "FILE_TRUNCATE_FAILED")
            ELSE [g EXCEPT !.raw = RawTruncate(@, loop.rawLen), !.single = NewChunk(0), !.cur = "none"]
        refilled(g) == Then(DoSeek(g, g.size, 0, TRUE),
                            LAMBDA h : IF kept = <<>> THEN h ELSE WriteImpl(h, kept))
        checked(g) == IF g.size # n THEN Failed(g, "ABORTED") ELSE g
    IN  IF loop.f.err # "ok" THEN loop.f
        ELSE RestoredOnError(Then(Then(Then(WriteSizeOr(sized, fault), dropped), refilled), checked), undo)

\* A chunk cannot be read: none is current.
Unread(f) == Failed([f EXCEPT !.single = NewChunk(0), !.cur = "none"], "FILE_READ_FAILED")

\* Seeking to the cut.  "test" is the failure the tests ask for: a position
\* behind the end, with the file taken for changed; "seek" is a chunk that
\* cannot be read.
SeekCut(f, n, fault) ==
    IF fault = "seek" THEN Unread(f)
    ELSE DoSeek(f, IF fault = "test" THEN f.size + 1 ELSE n, 0, FALSE)

\* Shrinking to n > 0, after the cache has been flushed and cleared; a seek
\* that fails falls back to the cursor, which opening again has set to 0.
\* One of the chunks behind the cut may be what cannot be read ("chunk").
Cut(f, n, fault, undo) ==
    LET at   == SeekCut(f, n, fault)
        back == [DoSeek([at EXCEPT !.err = "ok"], f.cursor, 0, TRUE) EXCEPT !.err = at.err]
    IN  IF at.err = "ok" /\ fault = "chunk" /\ ~IsLastChunk(at, Current(at)) THEN Unread(at)
        ELSE IF at.err = "ok" THEN Drop(at, CutLoop(at), n, fault, undo)
        ELSE IF fault = "test" THEN RestoredOnError(back, undo) ELSE back

Shrink(f, n, fault, undo) ==
    LET emptied(g) == [g EXCEPT !.cache = <<>>, !.cur = "none"]
        zeroed(g)  == [g EXCEPT !.size = 0, !.csize = 0, !.sizeDirty = TRUE]
    IN  Then(DoFlush(f), LAMBDA g :
          IF n = 0 THEN Then(RestoredOnError(WriteSizeOr(zeroed(emptied(g)), fault), undo),
                             LAMBDA h : DoSeek(h, 0, 0, TRUE))
          ELSE Cut(emptied(g), n, fault, undo))

\* With a backup the file is closed, copied and opened again for writing.
TruncateOpen(f, n, backup, fault) ==
    LET closed == DoClose(f)
        undo   == [backup |-> backup, raw |-> closed.raw, cursor |-> f.cursor, seek |-> f.seek]
        again  == [DoOpen(closed, "write_existing", f.streaming) EXCEPT !.seek = f.seek]
    IN  IF n = f.size THEN f
        ELSE IF n > f.size THEN Extend(f, n)
        ELSE Then(Then(IF backup THEN again ELSE f, LAMBDA g : Shrink(g, n, fault, undo)),
                  LAMBDA h : IF n = 0 THEN h ELSE DoSeek(h, Min({f.cursor, n}), 0, TRUE))

\* A file that is not open is opened for the call, and left open by an error;
\* the failure the tests ask for is not handed on.
TruncateImpl(f, n, backup, fault) ==
    LET handed == IF fault = "test" THEN "none" ELSE fault
    IN  IF f.open THEN TruncateOpen(f, n, backup, fault)
        ELSE Then(Then(DoOpen(f, "write_existing", f.streaming),
                       LAMBDA g : TruncateOpen(g, n, backup, handed)), DoClose)

--------------------------------------------------------------------------
(* The calls.                                                              *)

Modes == {"read", "scan", "write", "write_existing", "append"}

Init ==
    /\ s = Reset([open |-> FALSE, mode |-> "scan", streaming |-> FALSE, cached |-> TRUE,
                  cursor |-> 0, seek |-> 0, size |-> 0, csize |-> 0, eof |-> 0,
                  sizeDirty |-> FALSE, cur |-> "none", single |-> NewChunk(0), cache |-> <<>>,
                  raw |-> [exists |-> FALSE, streaming |-> FALSE, size |-> 0, csize |-> 0,
                           chunks |-> <<>>, len |-> 0],
                  err |-> "ok"])
    /\ last = [call |-> "none", n |-> 0, bytes |-> <<>>]
    /\ calls = 0

\* A call leaves the object as f; last tells what was asked and what came back.
Returns(f, call, n, bytes) ==
    /\ s' = [f EXCEPT !.err = "ok"]
    /\ last' = [call |-> IF f.err = "ok" THEN call ELSE f.err, n |-> n, bytes |-> bytes]
    /\ calls' = calls + 1

\* The sequences of calls after which the file is not what was written:
\*   seekToCursor      back to the cursor after a seek behind the end
\*   uncachedWrite     writing without the cache
\*   overwriteLast     one write that enters and overwrites the last chunk
\*   extendBehind      growing by truncate() after a seek behind the end
\*   extendAppended, truncateAppended  seeking behind the end of, or
\*                     resizing, a file that is appended to
\*   truncateToZero    emptying a file that has more than its first chunk
\*   failingSeek       a truncation that cannot read the chunk of the cut, or one
\*                     behind it: the cursor is left at 0, or at the cut
\*   failingClosed     a truncation that fails on a file that is not open
\*   wrongMode         opening a streamed file, without having told the object,
\*                     in a mode that is not for such files
May(irregular) == irregular \notin Avoided

Open(mode, streaming, cached) ==
    /\ ~s.open
    /\ calls < MaxCalls
    /\ s.raw.exists \/ mode \in {"write", "append"}
    /\ streaming => s.streaming \/ (mode = "append" /\ ~s.raw.exists)
    /\ IsNewFile(s, mode) \/ ~WrongMode(s.raw.streaming, mode) \/ streaming \/ May("wrongMode")
    /\ cached \/ mode \in {"append", "scan", "read"} \/ May("uncachedWrite")
    /\ Returns(DoOpen([s EXCEPT !.cached = cached], mode, streaming), "open", 0, <<>>)

Close ==
    /\ s.open
    /\ calls < MaxCalls
    /\ Returns(DoClose(s), "close", 0, <<>>)

\* flush(), sync(), fsync()
Flush ==
    /\ s.open
    /\ calls < MaxCalls
    /\ Returns(DoFlush(s), "flush", 0, <<>>)

InvalidateCache ==
    /\ s.open
    /\ calls < MaxCalls
    /\ LET cleared(f) == [f EXCEPT !.cache = <<>>]
           again(f)   == IF IsAppend(f) THEN f ELSE DoSeek([f EXCEPT !.cur = "none"], f.cursor, 0, TRUE)
       IN  Returns(Then(Then(DoFlush(s), cleared), again), "flush", 0, <<>>)

Seek(pos) ==
    /\ s.open
    /\ calls < MaxCalls
    /\ pos = s.cursor => s.seek = s.cursor \/ May("seekToCursor")
    /\ IsAppend(s) => pos <= s.size \/ May("extendAppended")
    /\ Returns(IF pos = s.cursor THEN s
               ELSE IF pos > s.size THEN [s EXCEPT !.seek = pos]
               ELSE DoSeek([s EXCEPT !.seek = pos], pos, 0, TRUE),
               "seek", pos, <<>>)

\* A write that enters the last chunk from another one and writes all of it.
OverwritesLastChunk(f, n) ==
    /\ f.cur # "none"
    /\ Current(f).seqnum < f.eof
    /\ SeqnumToPos(f.eof) + Chunk <= f.cursor + n

\* The gap before the position has been filled.  If that failed, the Error is
\* returned as the number of bytes written.
WriteAt(f, data) ==
    IF f.err = "ASSERT" THEN Returns(f, "write", 0, <<>>)
    ELSE IF f.err # "ok" THEN Returns([f EXCEPT !.err = "ok"], "write", 1, SubSeq(data, 1, 1))
    ELSE Returns(Then(WriteImpl(f, data), LAMBDA g : [g EXCEPT !.seek = @ + Len(data)]),
                 "write", Len(data), data)

Write(data) ==
    /\ s.open
    /\ calls < MaxCalls
    /\ Max({s.seek, s.cursor}) + Len(data) <= MaxSize
    /\ OverwritesLastChunk(s, Len(data)) => May("overwriteLast")
    /\ LET gap == s.seek > s.size
           at  == IF gap THEN Then(TruncateImpl(s, s.seek, FALSE, "none"),
                                   LAMBDA g : DoSeek(g, s.seek, 0, TRUE)) ELSE s
       IN  IF s.cur = "none" THEN Returns(Failed(s, "FILE_NOT_OPEN"), "write", 0, <<>>)
           ELSE IF ~IsWriteMode(s) THEN Returns(Failed(s, "FILE_WRITE_FAILED"), "write", 0, <<>>)
           ELSE WriteAt(at, data)

Read(n) ==
    /\ s.open
    /\ calls < MaxCalls
    /\ LET loop == ReadLoop(s, n)
       IN  IF s.cur = "none" THEN Returns(Failed(s, "FILE_NOT_OPEN"), "read", n, <<>>)
           ELSE IF IsAppend(s) THEN Returns(Failed(s, "FILE_READ_FAILED"), "read", n, <<>>)
           ELSE IF s.seek >= s.size THEN Returns(s, "read", n, <<>>)
           ELSE Returns(Then(loop.f, LAMBDA g : [g EXCEPT !.seek = @ + Len(loop.bytes)]),
                        "read", n, loop.bytes)

Faults == {"none", "test", "seek", "chunk", "header", "truncate"}

HasOneChunk(f) == IF f.open THEN f.eof = 0 /\ f.size < FirstChunk ELSE f.raw.size < FirstChunk

\* Without a backup a file is said to become corrupted in case of error.
Truncate(n, backup, fault) ==
    /\ IF s.open THEN IsWriteMode(s) ELSE s.raw.exists
    /\ calls < MaxCalls
    /\ fault # "none" => backup
    /\ fault = "seek" => s.cursor = 0 \/ May("failingSeek")
    /\ fault = "chunk" => s.cursor = n \/ May("failingSeek")
    /\ fault # "none" => s.open \/ May("failingClosed")
    /\ n = 0 => HasOneChunk(s) \/ May("truncateToZero")
    /\ n > s.size => s.seek = s.cursor \/ May("extendBehind")
    /\ n # s.size => ~IsAppend(s) \/ May("truncateAppended")
    /\ Returns(TruncateImpl(s, n, backup, fault), "truncate", n, <<>>)

Next ==
    \/ \E mode \in Modes, streaming, cached \in BOOLEAN : Open(mode, streaming, cached)
    \/ Close
    \/ Flush
    \/ InvalidateCache
    \/ \E pos \in 0..MaxSize : Seek(pos)
    \/ \E n \in 1..MaxWrite, v \in Values : Write([i \in 1..n |-> v])
    \/ \E n \in 1..MaxWrite : Read(n)
    \/ \E n \in 0..MaxSize, backup \in BOOLEAN, fault \in Faults : Truncate(n, backup, fault)

Spec == Init /\ [][Next]_vars

--------------------------------------------------------------------------
(* What it promises.                                                       *)

\* The value of a byte no chunk holds.
Lost == -1

\* The byte at a position: of the chunk the object holds, or of the raw file
\* as it would be read.
ByteAt(f, pos) ==
    LET k     == PosToSeqnum(pos)
        held  == {c \in {f.cache[i] : i \in DOMAIN f.cache}
                        \cup (IF f.cur = "single" THEN {f.single} ELSE {}) : c.seqnum = k}
        bytes == IF held # {} THEN (CHOOSE c \in held : TRUE).content
                              ELSE ReadRawChunk(f, k, FALSE).chunk.content
        i     == ChunkOffsetForPos(pos) + 1
    IN  IF i \in DOMAIN bytes THEN bytes[i] ELSE Lost

Bytes(f) == [i \in 1..f.size |-> ByteAt(f, i - 1)]

\* What a new object would find in the raw file.
OnDisk(f) ==
    LET st == f.raw.streaming
    IN  Bytes([Reset(f) EXCEPT !.streaming = st,
                               !.size = IF st THEN StreamedSize(f.raw.len) ELSE f.raw.size,
                               !.csize = IF st THEN f.raw.len ELSE f.raw.csize])

Content(f) == IF f.open THEN Bytes(f) ELSE OnDisk(f)

Plain == INSTANCE PlainFile WITH
           content  <- Content(s),
           position <- IF IsAppend(s) /\ s.open THEN s.size ELSE s.seek,
           state    <- IF ~s.open THEN "closed"
                       ELSE IF IsAppend(s) THEN "append"
                       ELSE IF IsWriteMode(s) THEN "write" ELSE "read",
           last     <- IF last.call \in {"none", "open", "close", "flush", "seek", "write", "read", "truncate"}
                       THEN last ELSE [call |-> "error", n |-> 0, bytes |-> <<>>]

\* CryptFile is interchangeable with PlainFile: through every mode, cache state
\* and call its bytes, its position and what its reads return are those of a
\* plain file, and a call that reports an error (a truncation with a backup
\* whose header write or raw truncation fails too) changes nothing.  Both
\* extend a file that is truncated to a larger size, which file.h:422 and
\* cryptfile.h:366 promise to be a noop.
IsAPlainFile == Plain!PlainSpec

\* No sequence of calls makes the object's own checks fail: the raw file
\* covers the ciphertext size, chunks decrypt, the cursor stays within the
\* size, no chunk is read past its content.
ChecksNeverFail ==
    last.call \notin {"INVALID_SIZE", "UNPACK_FAILED", "ASSERT", "OVERRUN", "ABORTED",
                      "INVALID_CRYPTFILE_FORMAT"}

\* When nothing is dirty (after flush, sync and close) another object opening
\* the file finds the same bytes: the header's sizes are those of the chunks.
FlushedIsOnDisk ==
    (s.open /\ ~s.sizeDirty /\ \A i \in DOMAIN s.cache : ~s.cache[i].dirty)
      /\ (s.cur = "single" => ~s.single.dirty)
    => OnDisk(s) = Content(s)
=============================================================================
