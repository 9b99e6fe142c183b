------------------------------- MODULE SmfReaders ------------------------------
(***************************************************************************)
(* How the three decoders read the header of a file, the head of a chunk   *)
(* and one event.  scan_smf and scan_track, parse_smf and parse_track,     *)
(* parse_score_smf_impl and parse_score_track each write this out for      *)
(* themselves, and so does this module: Scan..., Owned... and Score... are *)
(* three copies that share the reads of Cursor and no more.  What a copy   *)
(* answers has one form for all, so that they can be compared.             *)
(***************************************************************************)
EXTENDS Cursor

NoStatus == 0

Mthd == <<77, 84, 104, 100>>
Mtrk == <<77, 84, 114, 107>>

(* 0x80..=0xef in each match. *)
IsChannel(status) == status \in 128..239

(* An event as read: where its delta time, its first byte and its payload  *)
(* stand in the file and where it ends.  The bytes that a copy skips (scan *)
(* those of every payload, score those of a SysEx event) are noted too.    *)
Event(delta, status, offset, body, from, to) ==
    [delta |-> delta, status |-> status, type |-> body.type, data |-> body.bytes,
     from |-> from, offset |-> offset, at |-> body.at, to |-> to]
Body(type, bytes, at, after) == Read([type |-> type, bytes |-> bytes, at |-> at], after)

(* A body, and the running status after it. *)
Keeping(body, running) ==
    Then(body, LAMBDA b : Read([body |-> b.value, running |-> running], b.cursor))
Completed(from, delta, status, body) ==
    Then(body, LAMBDA b :
        Read([event |-> Event(delta.value, status, AbsoluteOffset(delta.cursor), b.value.body,
                              AbsoluteOffset(from), AbsoluteOffset(b.cursor)),
              running |-> b.value.running], b.cursor))

--------------------------------------------------------------------------------
(* scan_smf and scan_track. *)

ScanFields(body, outside) ==
    Then(ReadU16(body), LAMBDA format :
        IF format.value > 2 THEN Error("InvalidFormat", body.base)
        ELSE Then(ReadU16(format.cursor), LAMBDA tracks :
                 Then(ReadU16(tracks.cursor), LAMBDA division :
                     Read([format |-> format.value, tracks |-> tracks.value,
                           division |-> division.value], outside))))
ScanHeader(c) ==
    Then(ReadTag(c), LAMBDA tag :
        IF tag.value # Mthd THEN Error("ExpectedChunk", AbsoluteOffset(c))
        ELSE Then(ReadU32(tag.cursor), LAMBDA size :
                 IF size.value < 6 THEN Error("HeaderTooShort", AbsoluteOffset(tag.cursor))
                 ELSE Then(TakeCursor(size.cursor, size.value), LAMBDA body :
                          ScanFields(body.value, body.cursor))))

(* Mutant: the outer cursor stays at the body it hands out. *)
ScanChunkAgain(c) ==
    Then(ReadTag(c), LAMBDA tag :
        IF tag.value # Mtrk THEN Error("ExpectedChunk", AbsoluteOffset(c))
        ELSE Then(ReadU32(tag.cursor), LAMBDA size :
                 Then(TakeCursor(size.cursor, size.value), LAMBDA b : Read(b.value, size.cursor))))

ScanChunk(c) ==
    Then(ReadTag(c), LAMBDA tag :
        IF tag.value # Mtrk THEN Error("ExpectedChunk", AbsoluteOffset(c))
        ELSE Then(ReadU32(tag.cursor), LAMBDA size : TakeCursor(size.cursor, size.value)))

(* scan_channel_data: as many bytes as are missing, the first one checked again. *)
ScanDataByte(c) == Then(ReadU8(c), LAMBDA b : ValidDataByte(b.value, AbsoluteOffset(c), b.cursor))
ScanMissing(c, missing) ==
    IF missing = 0 THEN Read(<<>>, c)
    ELSE Then(ScanDataByte(c), LAMBDA one :
             IF missing = 1 THEN Read(<<one.value>>, one.cursor)
             ELSE Then(ScanDataByte(one.cursor), LAMBDA two :
                      Read(<<one.value, two.value>>, two.cursor)))
ScanChannelData(c, first, length) ==
    Then(IF first = <<>> THEN Read(0, c)
         ELSE ValidDataByte(first[1], AbsoluteOffset(c) - 1, c), LAMBDA valid :
        Then(ScanMissing(c, length - Len(first)), LAMBDA rest :
            Body(0, first \o rest.value, 0, rest.cursor)))
ScanPayload(c, type) ==
    Then(ReadVlq(c), LAMBDA length :
        Then(Take(length.cursor, length.value), LAMBDA skipped :
            Body(type, skipped.value, AbsoluteOffset(length.cursor), skipped.cursor)))

ScanBody(c, offset, status, first, running) ==
    CASE IsChannel(status) ->
            Keeping(ScanChannelData(c, first, IF status \div 16 \in {12, 13} THEN 1 ELSE 2), running)
      [] status = 255 /\ first = <<>> ->
            Keeping(Then(ReadU8(c), LAMBDA type : ScanPayload(type.cursor, type.value)), NoStatus)
      [] status \in {240, 247} /\ first = <<>> -> Keeping(ScanPayload(c, 0), NoStatus)
      [] OTHER -> Error("InvalidStatus", offset)
ScanEvent(c, running) ==
    Then(ReadVlq(c), LAMBDA delta : Then(ReadU8(delta.cursor), LAMBDA byte :
        LET offset == AbsoluteOffset(delta.cursor)
            isData == byte.value < 128
            status == IF isData THEN running ELSE byte.value
            kept == IF ~isData /\ byte.value < 240 THEN byte.value ELSE running
        IN  IF isData /\ running = NoStatus THEN Error("RunningStatusMissing", offset)
            ELSE Completed(c, delta, status,
                           ScanBody(byte.cursor, offset, status,
                                     IF isData THEN <<byte.value>> ELSE <<>>, kept))))

--------------------------------------------------------------------------------
(* parse_smf and parse_track.  The second walk takes over the header and   *)
(* looks at no tag.                                                        *)

(* Mutant: every header is taken for one of six bytes. *)
OwnedHeaderOfSix(c, header) ==
    Then(Take(c, 4), LAMBDA tag : Then(ReadU32(tag.cursor), LAMBDA size :
        Then(Take(size.cursor, 6), LAMBDA skipped : Read(header, skipped.cursor))))

OwnedHeader(c, header) ==
    Then(Take(c, 4), LAMBDA tag : Then(ReadU32(tag.cursor), LAMBDA size :
        Then(Take(size.cursor, size.value), LAMBDA skipped : Read(header, skipped.cursor))))

OwnedChunk(c) ==
    Then(Take(c, 4), LAMBDA tag : Then(ReadU32(tag.cursor), LAMBDA size :
        TakeCursor(size.cursor, size.value)))

(* read_channel_data: `data' is filled while it is shorter than the length. *)
OwnedFilled(data, length) ==
    IF Len(data.value) >= length THEN data
    ELSE Then(ReadU8(data.cursor), LAMBDA b :
             Then(ValidDataByte(b.value, AbsoluteOffset(data.cursor), b.cursor), LAMBDA valid :
                 Read(Append(data.value, valid.value), valid.cursor)))
OwnedChannelData(c, first, length) ==
    Then(IF first = <<>> THEN Read(<<>>, c)
         ELSE Then(ValidDataByte(first[1], AbsoluteOffset(c) - 1, c), LAMBDA b :
                  Read(<<b.value>>, b.cursor)), LAMBDA none :
        Then(OwnedFilled(none, length), LAMBDA one :
            Then(OwnedFilled(one, length), LAMBDA two : Body(0, two.value, 0, two.cursor))))
OwnedPayload(c, type) ==
    Then(ReadVlq(c), LAMBDA length :
        Then(Take(length.cursor, length.value), LAMBDA payload :
            Body(type, payload.value, AbsoluteOffset(length.cursor), payload.cursor)))

OwnedBody(c, offset, status, first, running) ==
    CASE IsChannel(status) ->
            Keeping(OwnedChannelData(c, first, IF status \div 16 \in {12, 13} THEN 1 ELSE 2), running)
      [] status = 255 /\ first = <<>> ->
            Keeping(Then(ReadU8(c), LAMBDA type : OwnedPayload(type.cursor, type.value)), NoStatus)
      [] status \in {240, 247} /\ first = <<>> -> Keeping(OwnedPayload(c, 0), NoStatus)
      [] OTHER -> Error("InvalidStatus", offset)
OwnedEvent(c, running) ==
    Then(ReadVlq(c), LAMBDA delta : Then(ReadU8(delta.cursor), LAMBDA byte :
        LET offset == AbsoluteOffset(delta.cursor)
            isData == byte.value < 128
            status == IF isData THEN running ELSE byte.value
            kept == IF ~isData /\ byte.value < 240 THEN byte.value ELSE running
        IN  IF isData /\ running = NoStatus THEN Error("RunningStatusMissing", offset)
            ELSE Completed(c, delta, status,
                           OwnedBody(byte.cursor, offset, status,
                                      IF isData THEN <<byte.value>> ELSE <<>>, kept))))

--------------------------------------------------------------------------------
(* parse_score_smf_impl and parse_score_track, under the Legacy grammar    *)
(* and no limits.                                                          *)

ScoreFields(body, outside) ==
    Then(ReadU16(body), LAMBDA format :
        IF format.value > 2 THEN Error("InvalidFormat", body.base)
        ELSE Then(ReadU16(format.cursor), LAMBDA tracks :
                 Then(ReadU16(tracks.cursor), LAMBDA division :
                     Read([format |-> format.value, tracks |-> tracks.value,
                           division |-> division.value], outside))))
ScoreHeader(c) ==
    Then(ReadTag(c), LAMBDA tag :
        IF tag.value # Mthd THEN Error("ExpectedChunk", AbsoluteOffset(c))
        ELSE Then(ReadU32(tag.cursor), LAMBDA size :
                 IF size.value < 6 THEN Error("HeaderTooShort", AbsoluteOffset(tag.cursor))
                 ELSE Then(TakeCursor(size.cursor, size.value), LAMBDA body :
                          ScoreFields(body.value, body.cursor))))
ScoreChunk(c) ==
    Then(ReadTag(c), LAMBDA tag :
        IF tag.value # Mtrk THEN Error("ExpectedChunk", AbsoluteOffset(c))
        ELSE Then(ReadU32(tag.cursor), LAMBDA size : TakeCursor(size.cursor, size.value)))

(* read_score_channel_data, read_score_data_byte. *)
ScoreDataByte(c) == Then(ReadU8(c), LAMBDA b : ValidDataByte(b.value, AbsoluteOffset(c), b.cursor))

(* Mutant: channel pressure is taken for a message of two data bytes. *)
ScoreChannelDataLong(c, first, status) ==
    Then(IF first = <<>> THEN ScoreDataByte(c)
         ELSE ValidDataByte(first[1], AbsoluteOffset(c) - 1, c), LAMBDA one :
        IF status \div 16 = 13 THEN Body(0, <<one.value>>, 0, one.cursor)
        ELSE Then(ScoreDataByte(one.cursor), LAMBDA two :
                 Body(0, <<one.value, two.value>>, 0, two.cursor)))

ScoreChannelData(c, first, status) ==
    Then(IF first = <<>> THEN ScoreDataByte(c)
         ELSE ValidDataByte(first[1], AbsoluteOffset(c) - 1, c), LAMBDA one :
        IF status \div 16 \in {12, 13} THEN Body(0, <<one.value>>, 0, one.cursor)
        ELSE Then(ScoreDataByte(one.cursor), LAMBDA two :
                 Body(0, <<one.value, two.value>>, 0, two.cursor)))
ScoreMeta(c) ==
    Then(ReadU8(c), LAMBDA type : Then(ReadVlq(type.cursor), LAMBDA length :
        Then(Take(length.cursor, length.value), LAMBDA payload :
            Body(type.value, payload.value, AbsoluteOffset(length.cursor), payload.cursor))))
ScoreSysEx(c) ==
    Then(ReadVlq(c), LAMBDA length :
        Then(Take(length.cursor, length.value), LAMBDA skipped :
            Body(0, skipped.value, AbsoluteOffset(length.cursor), skipped.cursor)))

(* Mutant: a SysEx event does not interrupt the running status. *)
ScoreBodyOverSysEx(c, offset, status, first, running) ==
    CASE IsChannel(status) -> Keeping(ScoreChannelData(c, first, status), running)
      [] status = 255 /\ first = <<>> -> Keeping(ScoreMeta(c), NoStatus)
      [] status \in {240, 247} /\ first = <<>> -> Keeping(ScoreSysEx(c), running)
      [] OTHER -> Error("InvalidStatus", offset)

ScoreBody(c, offset, status, first, running) ==
    CASE IsChannel(status) -> Keeping(ScoreChannelData(c, first, status), running)
      [] status = 255 /\ first = <<>> -> Keeping(ScoreMeta(c), NoStatus)
      [] status \in {240, 247} /\ first = <<>> -> Keeping(ScoreSysEx(c), NoStatus)
      [] OTHER -> Error("InvalidStatus", offset)
ScoreEvent(c, running) ==
    Then(ReadVlq(c), LAMBDA delta : Then(ReadU8(delta.cursor), LAMBDA byte :
        LET offset == AbsoluteOffset(delta.cursor)
            isData == byte.value < 128
            status == IF isData THEN running ELSE byte.value
            kept == IF ~isData /\ byte.value < 240 THEN byte.value ELSE running
        IN  IF isData /\ running = NoStatus THEN Error("RunningStatusMissing", offset)
            ELSE Completed(c, delta, status,
                           ScoreBody(byte.cursor, offset, status,
                                      IF isData THEN <<byte.value>> ELSE <<>>, kept))))

================================================================================
