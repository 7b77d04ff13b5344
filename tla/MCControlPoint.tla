--------------------------- MODULE MCControlPoint ---------------------------
(* Two sources with folders three deep, names that differ in case, a folder *)
(* of junk, sidecars, and a directory outside that only a link leads to.   *)
EXTENDS ControlPoint

\* Extensions: 1 mp4, 2 mp3, 3 srt, 4 vtt, 5 jpg; 0 is that of a folder.
KnownMime == [e \in 1 .. 5 |-> <<"video", "audio", "text", "text", "image">>[e]]

tv == <<2, 0>>      usb == <<4, 0>>     season == <<6, 0>>   extra == <<8, 0>>
trash == <<10, 0>>
film == <<20, 2>>   FILM == <<21, 2>>   part2 == <<20, 22, 2>>
song == <<24, 4>>   note == <<26, 12>>
sub == <<20, 6>>    sub2 == <<20, 22, 28, 7>>   cover == <<20, 10>>

Junk == {trash}
Covers == << <<30, 10>> >>

\* 0 is Top; 1-6 directories, 10-19 files, 20 a link to 6, 21 to 17, 30 a fifo.
Kinds == [i \in (0 .. 6) \cup (10 .. 19) \cup {20, 21, 30} |->
            IF i <= 6 THEN "dir" ELSE IF i <= 19 THEN "file" ELSE IF i <= 21 THEN "link" ELSE "fifo"]
Links == [i \in {20, 21} |-> IF i = 20 THEN 6 ELSE 17]

Fs(set) == [e \in {x[1] : x \in set} |-> (CHOOSE x \in set : x[1] = e)[2]]

Outside == {<< <<6, film>>, 17>>}

Deep == Fs(Outside \cup {<< <<0, tv>>, 1>>, << <<1, season>>, 2>>, << <<2, extra>>, 3>>,
      << <<3, film>>, 10>>, << <<3, sub>>, 11>>, << <<1, FILM>>, 12>>, << <<1, trash>>, 4>>,
      << <<4, film>>, 13>>, << <<0, usb>>, 5>> })

Mixed == Fs(Outside \cup {<< <<0, tv>>, 1>>, << <<1, film>>, 10>>, << <<1, part2>>, 11>>,
      << <<1, sub2>>, 12>>, << <<1, sub>>, 13>>, << <<1, cover>>, 14>>, << <<1, note>>, 15>>,
      << <<0, usb>>, 5>>, << <<5, song>>, 16>>, << <<5, season>>, 2>>, << <<2, FILM>>, 18>> })

Trees == {Deep, Mixed}

Paths ==
    LET one == {<<tv>>, <<usb>>}
        two == {Append(p, n) : p \in one, n \in {season, trash}}
        three == {Append(p, n) : p \in two, n \in {extra}}
        leaf == {film, FILM, part2, song, note, sub, sub2, cover}
    IN  one \cup two \cup three
            \cup {Append(p, n) : p \in one \cup two \cup three, n \in leaf}

Given == {<< <<tv>>, <<usb>> >>, << <<tv, season>>, <<>>, <<tv>>, <<tv>> >>,
          << <<usb>>, <<usb, season>> >>}

FirstBytes == [form |-> "from", first |-> 0, last |-> 1]
AllAfter(n) == [form |-> "from", first |-> n, last |-> Open]
LastBytes(n) == [form |-> "suffix", first |-> n, last |-> Open]
Form(f) == [form |-> f, first |-> 0, last |-> Open]

Headers == {Form(f) : f \in {"none", "other", "several", "bad"}}
    \cup {FirstBytes, AllAfter(1), AllAfter(3), LastBytes(0), LastBytes(2), LastBytes(4),
          [form |-> "from", first |-> 2, last |-> 1], [form |-> "from", first |-> 1, last |-> 9]}

OfClass(v, a, t) == [video |-> v, audio |-> a, title |-> t]
Questions == {OfClass(FALSE, FALSE, {}), OfClass(TRUE, FALSE, {20}), OfClass(FALSE, TRUE, {})}
=============================================================================
