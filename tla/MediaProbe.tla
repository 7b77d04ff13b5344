----------------------------- MODULE MediaProbe -----------------------------
(***************************************************************************)
(* What core/src/meta.rs finds out about a media file: duration, picture   *)
(* size, codecs, and the DLNA profile it names for them.                   *)
(*                                                                         *)
(* A file is [ext, parts]: the boxes of an MP4, the elements of a Matroska *)
(* file, the chunks of a WAV or the blocks of a FLAC file, in their order. *)
(* The payload of a container of containers is flattened: every parser     *)
(* descends in order and carries one MediaInfo along.  A parser that gives *)
(* a file up does so between two parts.                                    *)
(***************************************************************************)
EXTENDS Naturals, Sequences, SequencesExt

CONSTANTS
    MaxSecs,     \* the seconds a Duration can hold
    MaxMoov,     \* MP4_MAX_MOOV_BYTES
    MaxFmt,      \* MAX_WAV_FMT_BYTES
    MaxInfo,     \* MAX_FLAC_STREAMINFO_BYTES
    Prefix       \* how many elements MKV_PROBE_BYTES reaches

ASSUME ProbeAssumption ==
    {MaxSecs, MaxMoov, MaxFmt, MaxInfo, Prefix} \subseteq Nat \ {0}

None == -1   \* no duration

\* MediaInfo.  `panics`: from_secs_f64 was given more than a Duration holds.
Unprobed == [duration |-> None, width |-> 0, height |-> 0,
             video |-> "", audio |-> "", panics |-> FALSE]

-----------------------------------------------------------------------------
(* Durations, in milliseconds: num / den seconds.                          *)

WithDuration(info, num, den) ==
    IF num >= MaxSecs * den THEN [info EXCEPT !.panics = TRUE]
    ELSE [info EXCEPT !.duration = (1000 * num) \div den]

\* H:MM:SS.mmm
FormatDlnaDuration(ms) ==
    <<ms \div 3600000, (ms \div 60000) % 60, (ms \div 1000) % 60, ms % 1000>>

WithSize(info, w, h) ==
    IF info.width = 0 /\ w > 0 /\ h > 0
    THEN [info EXCEPT !.width = w, !.height = h] ELSE info

ResolutionAttr(info) ==
    IF info.width > 0 /\ info.height > 0 THEN <<info.width, info.height>> ELSE <<>>

-----------------------------------------------------------------------------
(* MP4.  A box is [kind, form, size, leaves]; form "rest" is size 0, and a *)
(* "short" box is smaller than its own header.                             *)

VideoFourcc(f) ==
    CASE f \in {"avc1", "avc3", "dvav"} -> "avc"
      [] f \in {"hvc1", "hev1", "dvh1", "dvhe"} -> "hevc"
      [] f = "vp09" -> "vp9" [] f = "vp08" -> "vp8" [] f = "av01" -> "av1"
      [] f = "mp4v" -> "mpeg4" [] f \in {"mp2v", "m2v1"} -> "mpeg2"
      [] OTHER -> ""

AudioFourcc(f) ==
    CASE f = "mp4a" -> "aac" [] f \in {"ac-3", "AC-3"} -> "ac3" [] f = "ec-3" -> "eac3"
      [] f \in {"fLaC", "flac"} -> "flac" [] f \in {"Opus", "opus"} -> "opus"
      [] f \in {".mp3", "mp3 "} -> "mp3" [] f \in {"lpcm", "sowt", "twos"} -> "pcm"
      [] OTHER -> ""

\* parse_stsd: the first codec that is known, of each sort.
ParseStsd(info, entries) ==
    LET step(acc, e) ==
            IF VideoFourcc(e.fourcc) # "" /\ acc.video = ""
            THEN WithSize([acc EXCEPT !.video = VideoFourcc(e.fourcc)], e.w, e.h)
            ELSE IF AudioFourcc(e.fourcc) # "" /\ acc.audio = ""
            THEN [acc EXCEPT !.audio = AudioFourcc(e.fourcc)] ELSE acc
    IN  FoldLeft(step, info, entries)

\* parse_mvhd: no timescale, no duration.
ParseMvhd(info, mvhd) ==
    IF info.duration # None \/ mvhd.scale = 0 THEN info
    ELSE WithDuration(info, mvhd.ticks, mvhd.scale)

WalkMp4(leaves) ==
    LET step(acc, leaf) ==
            CASE acc.panics -> acc
              [] leaf.kind = "mvhd" -> ParseMvhd(acc, leaf)
              [] leaf.kind = "tkhd" -> WithSize(acc, leaf.w, leaf.h)
              [] leaf.kind = "stsd" -> ParseStsd(acc, leaf.entries)
              [] OTHER -> acc
    IN  FoldLeft(step, Unprobed, leaves)

FirstBoxOnly(boxes, k) == k = 1   \* mutant of Reached: no box is stepped over

\* Box k is come to: all before it say where they end and are no moov.
Reached(boxes, k) ==
    \A j \in 1 .. k - 1 :
        boxes[j].form \in {"size", "large"} /\ boxes[j].kind # "moov"

Mp4Info(boxes) ==
    LET moov == {k \in DOMAIN boxes :
                    /\ boxes[k].kind = "moov" /\ boxes[k].form # "short"
                    /\ boxes[k].size <= MaxMoov /\ Reached(boxes, k)}
    IN  IF moov = {} THEN Unprobed
        ELSE WalkMp4(boxes[CHOOSE k \in moov : TRUE].leaves)

-----------------------------------------------------------------------------
(* Matroska.  A codec id is the set of the names it contains; an element   *)
(* is [kind, ...] and "endless" is one of unknown size.                    *)

FirstMark(id, marks) ==
    LET found == SelectSeq(marks, LAMBDA m : m[1] \in id)
    IN  IF found = <<>> THEN "" ELSE found[1][2]

MkvVideoCodec(id) ==
    FirstMark(id, <<<<"AVC", "avc">>, <<"HEVC", "hevc">>, <<"HVC", "hevc">>,
                    <<"VP9", "vp9">>, <<"VP8", "vp8">>, <<"AV1", "av1">>,
                    <<"MPEG2", "mpeg2">>, <<"V_MPEG4", "mpeg4">>>>)

MkvAudioCodec(id) ==
    FirstMark(id, <<<<"A_AAC", "aac">>, <<"MPEG/L3", "mp3">>, <<"MP3", "mp3">>,
                    <<"EAC3", "eac3">>, <<"E-AC3", "eac3">>, <<"AC3", "ac3">>,
                    <<"FLAC", "flac">>, <<"VORBIS", "vorbis">>, <<"OPUS", "opus">>,
                    <<"PCM", "pcm">>>>)

ParseMkvTracks(info, entries) ==
    LET step(acc, t) ==
            CASE t.type = 1 ->
                   WithSize(IF acc.video = ""
                            THEN [acc EXCEPT !.video = MkvVideoCodec(t.codec)]
                            ELSE acc, t.w, t.h)
              [] t.type = 2 /\ acc.audio = "" ->
                   [acc EXCEPT !.audio = MkvAudioCodec(t.codec)]
              [] OTHER -> acc
    IN  FoldLeft(step, info, entries)

\* The elements of the prefix up to one of unknown size; a Segment is entered.
\* The scale, in ticks per second, and the duration are those read last.
MkvInfo(elements) ==
    LET prefix == SubSeq(elements, 1, IF Len(elements) < Prefix THEN Len(elements) ELSE Prefix)
        endless == {k \in DOMAIN prefix : prefix[k].kind = "endless"}
        read == IF endless = {} THEN prefix
                ELSE SubSeq(prefix, 1, (CHOOSE k \in endless : \A j \in endless : k <= j) - 1)
        tracks == SelectSeq(read, LAMBDA e : e.kind = "tracks")
        infos == SelectSeq(read, LAMBDA e : e.kind = "info")
        info == FoldLeft(LAMBDA acc, e : ParseMkvTracks(acc, e.entries), Unprobed, tracks)
    IN  IF infos = <<>> \/ Last(infos).ticks = 0 THEN info
        ELSE WithDuration(info, Last(infos).ticks, Last(infos).scale)

-----------------------------------------------------------------------------
(* WAV and FLAC.                                                           *)

\* The rate of the last usable fmt chunk before the first data chunk.
WavInfo(chunks) ==
    LET pcm == [Unprobed EXCEPT !.audio = "pcm"]
        datas == {k \in DOMAIN chunks : chunks[k].kind = "data"}
        data == CHOOSE k \in datas : \A j \in datas : k <= j
        fmts == {k \in 1 .. data - 1 : /\ chunks[k].kind = "fmt"
                                       /\ chunks[k].size \in 16 .. MaxFmt}
        rate == IF fmts = {} THEN 0
                ELSE chunks[CHOOSE k \in fmts : \A j \in fmts : j <= k].rate
    IN  IF datas = {} THEN pcm
        ELSE IF rate = 0 THEN pcm
        ELSE WithDuration(pcm, chunks[data].size, rate)

\* The first STREAMINFO, which no block marked last comes before.
FlacInfo(blocks) ==
    LET flac == [Unprobed EXCEPT !.audio = "flac"]
        infos == {k \in DOMAIN blocks :
                    /\ blocks[k].kind = "streaminfo"
                    /\ \A j \in 1 .. k - 1 :
                          blocks[j].kind # "streaminfo" /\ ~blocks[j].last}
        b == blocks[CHOOSE k \in infos : TRUE]
    IN  IF infos = {} THEN flac
        ELSE IF b.size \notin 18 .. MaxInfo \/ b.rate = 0 \/ b.total = 0 THEN flac
        ELSE WithDuration(flac, b.total, b.rate)

ProbeMedia(file) ==
    CASE file.ext \in {"mp4", "m4v", "m4a", "mov"} -> Mp4Info(file.parts)
      [] file.ext \in {"mkv", "webm"} -> MkvInfo(file.parts)
      [] file.ext = "wav" -> WavInfo(file.parts)
      [] file.ext = "flac" -> FlacInfo(file.parts)
      [] OTHER -> Unprobed

-----------------------------------------------------------------------------
(* Profiles.                                                               *)

DlnaOrgPn(ext) ==
    CASE ext = "mp3" -> "MP3" [] ext = "flac" -> "FLAC" [] ext = "wav" -> "LPCM"
      [] ext = "aac" -> "AAC_ADTS_320" [] ext = "m4a" -> "AAC_ISO"
      [] ext \in {"jpg", "jpeg"} -> "JPEG_LRG" [] ext = "png" -> "PNG_LRG"
      [] OTHER -> ""

AvcProfile(ext, h) ==
    CASE ext \in {"mkv", "webm"} ->
           IF h > 720 THEN "AVC_MKV_HP_HD_AC3" ELSE "AVC_MKV_MP_HD_AC3"
      [] ext \in {"mp4", "m4v", "mov"} ->
           IF h > 720 THEN "AVC_MP4_HP_HD_AAC"
           ELSE IF h > 576 THEN "AVC_MP4_MP_HD_AAC_MULT5"
           ELSE "AVC_MP4_MP_SD_AAC_MULT5"
      [] OTHER -> ""

Ac3Profiles == {"AVC_MKV_HP_HD_AC3", "AVC_MKV_MP_HD_AC3"}
AvcMp4Profiles == {"AVC_MP4_HP_HD_AAC", "AVC_MP4_MP_HD_AAC_MULT5",
                   "AVC_MP4_MP_SD_AAC_MULT5"}
AacProfiles == {"AAC_ADTS_320", "AAC_ISO"} \cup AvcMp4Profiles
AvcProfiles == AvcMp4Profiles \cup Ac3Profiles

PnMatchesAudio(pn, audio) ==
    CASE audio = "" -> TRUE
      [] pn \in AacProfiles -> audio = "aac"
      [] pn \in Ac3Profiles -> audio = "ac3"
      [] OTHER -> TRUE

PnByExtension(ext, info) ==   \* mutant of DlnaOrgPnFor: the audio is not asked
    IF info.video = "avc" THEN AvcProfile(ext, info.height)
    ELSE IF info.video = "" THEN DlnaOrgPn(ext) ELSE ""

DlnaOrgPnFor(ext, info) ==
    LET pn == CASE info.video = "avc" -> AvcProfile(ext, info.height)
                [] info.video = "" -> DlnaOrgPn(ext)
                [] OTHER -> ""
    IN  IF PnMatchesAudio(pn, info.audio) THEN pn ELSE ""

NoFields == [duration |-> <<>>, resolution |-> <<>>, pn |-> ""]

\* probe_fields, of a file whose probe does not panic.
ProbeFields(file) ==
    LET info == ProbeMedia(file)
    IN  [duration |-> IF info.duration = None THEN <<>>
                      ELSE FormatDlnaDuration(info.duration),
         resolution |-> ResolutionAttr(info),
         pn |-> DlnaOrgPnFor(file.ext, info)]
=============================================================================
