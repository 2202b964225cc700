------------------------------- MODULE Stream -------------------------------
(* src/base/stream: a Stream keeps an offset_ and the result_ of its last    *)
(* call, and leaves the writing to a MemoryStream's buffer or to the FILE of *)
(* a FileStream, which keeps a position of its own to seek only when it has  *)
(* to.  Here the same calls go to one of each.  The operating system may     *)
(* fail to open a file, to seek and to write; what it wrote before it failed *)
(* stays written.                                                            *)
(*                                                                           *)
(* fields, which the code does not keep, are the integers of leb128.cpp that *)
(* were written and that no later call overwrote.                            *)
EXTENDS Leb128, SequencesExt

CONSTANTS Numbers,      \* the numbers written
          StreamBytes,  \* bound on the length of a buffer
          StreamCalls   \* bound on the number of calls

ASSUME StreamAssumption ==
  /\ Numbers \subseteq Signed(W32)
  /\ StreamBytes \in Nat /\ StreamCalls \in Nat

VARIABLES
  ms,        \* the MemoryStream: offset_, result_ and its buffer's data
  fs,        \* the FileStream: offset_, result_, its own offset_ as pos, open
  file,      \* the file: its data, and where it is going to be written next
  failed,    \* has a call to fs failed
  fields,    \* [at, kind, value]
  calls

streamVars == <<ms, fs, file, failed, fields, calls>>

(* Writing at an offset past the end leaves zeros before it.                 *)
Stored(data, at, src) ==
  IF src = <<>> THEN data
  ELSE [i \in 1 .. Max({Len(data), at + Len(src)}) |->
          IF i \in at + 1 .. at + Len(src) THEN src[i - at]
          ELSE IF i <= Len(data) THEN data[i] ELSE 0]

(*-------------------------------- the calls -------------------------------*)

MemoryStream_MoveDataImpl_Forwards(data, dst, src, size) ==
  LET room == Stored(data, Max({src, dst}) + size - 1, <<0>>)
      full == IF Len(room) > Len(data) THEN room ELSE data
      copy(d, i) == [d EXCEPT ![dst + i] = d[src + i]]
  IN IF size = 0 THEN data ELSE FoldLeft(copy, full, [i \in 1 .. size |-> i])

(* resize, with zeros, and memmove.                                          *)
MemoryStream_MoveDataImpl(data, dst, src, size) ==
  LET full == [i \in 1 .. Max({Len(data), src + size, dst + size}) |->
                 IF i <= Len(data) THEN data[i] ELSE 0]
  IN IF size = 0 THEN data
     ELSE Stored(full, dst, SubSeq(full, src + 1, src + size))

(* Every way a call to the file may end: the FileStream, and the file.       *)
Error(f) == [fs |-> [f EXCEPT !.result_ = "Error"], file |-> file]

FileStream_WriteDataImpl_NeverSeeks(at, src) ==
  {[fs |-> [fs EXCEPT !.pos = @ + Len(src)],
    file |-> [data |-> Stored(file.data, file.next, src),
              next |-> file.next + Len(src)]]}

FileStream_WriteDataImpl(at, src) ==
  LET seeks == at # fs.pos
      next  == IF seeks THEN at ELSE file.next
      put(bytes) == [data |-> Stored(file.data, next, bytes), next |-> next + Len(bytes)]
  IN IF ~fs.open THEN {Error(fs)}
     ELSE IF src = <<>> THEN {[fs |-> fs, file |-> file]}
     ELSE {[fs |-> [fs EXCEPT !.pos = at + Len(src)], file |-> put(src)]}
          \union {[Error([fs EXCEPT !.pos = at]) EXCEPT !.file = put(SubSeq(src, 1, n))] :
                    n \in 0 .. Len(src) - 1}
          \union (IF seeks THEN {Error(fs)} ELSE {})

FileStream_MoveDataImpl(size) ==
  IF fs.open /\ size = 0 THEN {[fs |-> fs, file |-> file]} ELSE {Error(fs)}

(* After a failure a Stream does nothing any more.                           *)
UnlessFailed(outcomes) ==
  IF fs.result_ = "Error" THEN {[fs |-> fs, file |-> file]} ELSE outcomes

(* The effect of a call on fs, whose offset_ is then this even if it failed. *)
FileCall(outcomes, offset) ==
  /\ \E out \in UnlessFailed(outcomes) :
       /\ fs' = [out.fs EXCEPT !.offset_ = offset]
       /\ file' = out.file
       /\ failed' = (failed \/ out.fs.result_ = "Error")
  /\ calls < StreamCalls /\ calls' = calls + 1

(* The bytes of a field in a buffer, and what a write leaves of the fields.  *)
Encoded(kind, v) ==
  CASE kind = "u32"   -> WriteU32Leb128(v)
    [] kind = "fixed" -> WriteFixedU32Leb128(v)
    [] kind = "s32"   -> WriteSigned(v, W32)
    [] kind = "s64"   -> WriteSigned(v, W64)
Extent(f) == f.at + 1 .. f.at + Len(Encoded(f.kind, f.value))
Clear_Of(where) == {f \in fields : Extent(f) \intersect where = {}}

WriteDataAt(at, src) ==
  /\ at + Len(src) <= StreamBytes
  /\ ms' = [ms EXCEPT !.data = Stored(@, at, src)]
  /\ FileCall(FileStream_WriteDataImpl(at, src), fs.offset_)

WriteData(src) ==
  /\ ms.offset_ + Len(src) <= StreamBytes
  /\ ms' = [ms EXCEPT !.data = Stored(@, ms.offset_, src),
                      !.offset_ = @ + Len(src)]
  /\ FileCall(FileStream_WriteDataImpl(fs.offset_, src), fs.offset_ + Len(src))

(* WriteU32Leb128, WriteFixedU32Leb128, WriteS32Leb128, WriteS64Leb128.      *)
WriteNumber(kind, v) ==
  /\ WriteData(Encoded(kind, v))
  /\ LET f == [at |-> ms.offset_, kind |-> kind, value |-> v]
     IN fields' = Clear_Of(Extent(f)) \union {f}

(* WriteU32Leb128At, WriteFixedU32Leb128At, to fill in a number that was not *)
(* known before.                                                             *)
WriteNumberAt(at, kind, v) ==
  /\ WriteDataAt(at, Encoded(kind, v))
  /\ LET f == [at |-> at, kind |-> kind, value |-> v]
     IN fields' = Clear_Of(Extent(f)) \union {f}

MoveData(dst, src, size) ==
  /\ dst + size <= StreamBytes
  /\ ms' = [ms EXCEPT !.data = MemoryStream_MoveDataImpl(@, dst, src, size)]
  /\ FileCall(FileStream_MoveDataImpl(size), fs.offset_)
  /\ fields' = Clear_Of(dst + 1 .. dst + size) \union
               {[f EXCEPT !.at = @ - src + dst] :
                  f \in {g \in fields : Extent(g) \subseteq src + 1 .. src + size}}

AddOffset(delta) ==
  /\ ms.offset_ + delta <= StreamBytes
  /\ ms' = [ms EXCEPT !.offset_ = @ + delta]
  /\ fs' = [fs EXCEPT !.offset_ = @ + delta]
  /\ calls < StreamCalls /\ calls' = calls + 1
  /\ UNCHANGED <<file, failed, fields>>

(* A FileStream is moved to a new one, whose Stream is new: the offset is    *)
(* zero and the result Ok again, but the position is the old one's.  The     *)
(* memory stream goes back to the beginning with ClearOffset.                *)
MoveStream ==
  /\ fs' = [fs EXCEPT !.offset_ = 0, !.result_ = "Ok"]
  /\ ms' = [ms EXCEPT !.offset_ = 0]
  /\ calls < StreamCalls /\ calls' = calls + 1
  /\ UNCHANGED <<file, failed, fields>>

(* MemoryStream::Clear, which keeps the offset, and a new FileStream on the  *)
(* same file, brought to that offset.                                        *)
ClearAndReopen ==
  /\ ms' = [ms EXCEPT !.data = <<>>]
  /\ \E open \in BOOLEAN :
       /\ fs' = [offset_ |-> ms.offset_, result_ |-> "Ok", pos |-> 0, open |-> open]
       /\ file' = IF open THEN [data |-> <<>>, next |-> 0] ELSE file
       /\ failed' = ~open
  /\ fields' = {}
  /\ calls < StreamCalls /\ calls' = calls + 1

StreamInit ==
  /\ ms = [offset_ |-> 0, result_ |-> "Ok", data |-> <<>>]
  /\ fs = [offset_ |-> 0, result_ |-> "Ok", pos |-> 0, open |-> TRUE]
  /\ file = [data |-> <<>>, next |-> 0]
  /\ failed = FALSE /\ fields = {} /\ calls = 0

StreamNext ==
  \/ \E kind \in {"u32", "fixed", "s32", "s64"}, v \in Numbers :
       (kind \in {"u32", "fixed"} => v >= 0) /\ WriteNumber(kind, v)
  \/ \E at \in 0 .. StreamBytes, kind \in {"u32", "fixed"}, v \in Numbers :
       v >= 0 /\ WriteNumberAt(at, kind, v)
  \/ \E src, dst \in 0 .. StreamBytes : \E size \in 0 .. StreamBytes - src :
       MoveData(dst, src, size)
  \/ \E delta \in 1 .. StreamBytes : AddOffset(delta)
  \/ MoveStream \/ ClearAndReopen

StreamSpec == StreamInit /\ [][StreamNext]_streamVars

(*------------------------------- properties -------------------------------*)

(* Whatever the order of appending, filling in, skipping and moving on, the  *)
(* file has the bytes that the buffer has, unless a call for it failed: the  *)
(* position that saves the seeks is the file's own.                          *)
FileAgreesWithMemory == ~failed => file.data = ms.data

(* A number that was written and not overwritten, or that was moved with its *)
(* surroundings, is read back from where it is.                              *)
EncodingsReadBack ==
  \A f \in fields :
    LET p   == SubSeq(ms.data, f.at + 1, Len(ms.data))
        got == CASE f.kind \in {"u32", "fixed"} -> ReadU32Leb128(p)
                 [] f.kind = "s32" -> ReadSigned(p, W32)
                 [] f.kind = "s64" -> ReadSigned(p, W64)
    IN got = [length |-> Len(Encoded(f.kind, f.value)), value |-> f.value]
=============================================================================
