----------------------------- MODULE MsLogging -----------------------------
(***************************************************************************)
(* What the MicroStrain platform makes of the memory of a node             *)
(* (processLogging in platform/microstrain/discover.c).  A logging session *)
(* is a header and then two bytes for each channel of each sample; it comes*)
(* in pages whose ends have nothing to do with the ends of samples.  The   *)
(* bytes of an unfinished sample are kept and decoded again with the next  *)
(* page.                                                                   *)
(*                                                                         *)
(* A channel mask is the set of its channels.  The conversion of a value   *)
(* (gain and offset) and the checksum of a page are left out.              *)
(***************************************************************************)
EXTENDS Naturals, Sequences, FiniteSetsExt

Channels     == 0 .. 7
HeaderLength == 12
WrapSize     == 16  \* wrappedval

(* The channel whose value comes after that of channel c.  The search does *)
(* not come back to c: a mask of a single channel has no next one.         *)
NextChannel(mask, c) ==
  LET found == { n \in c + 1 .. c + 7 : n % 8 \in mask }
  IN  IF found = {} THEN c + 8 ELSE Min(found) % 8

(* The bytes of a page between the header of the session, which only its    *)
(* first page has, and the header of the next one.  The search goes on one  *)
(* byte too far behind the first header.                                   *)
Headers(buffer) == { i \in 1 .. Len(buffer) - 1 : buffer[i] = 255 /\ buffer[i + 1] = 255 }

SkipsHeader(buffer, first) == first /\ Headers(buffer) # {}
Start(buffer, first) ==
  IF SkipsHeader(buffer, first) THEN Min(Headers(buffer)) + HeaderLength ELSE 1

Ends(buffer, first) ==
  { i \in Headers(buffer) : SkipsHeader(buffer, first) => i > Start(buffer, first) }

Values(buffer, first) ==
  SubSeq(buffer, Start(buffer, first),
         IF Ends(buffer, first) = {} THEN Len(buffer) ELSE Min(Ends(buffer, first)) - 1)

(* The decoder of one page: the channel whose value it reads, the first     *)
(* byte of this value, the sample so far and those that are complete.      *)
NoByte   == 256
NoValues == [c \in Channels |-> 0]

Decoder(mask) ==
  [channel |-> Min(mask), msb |-> NoByte, sample |-> NoValues, samples |-> << >>]

Decode(mask, d, byte) ==
  IF d.msb = NoByte THEN [d EXCEPT !.msb = byte]
  ELSE LET next == NextChannel(mask, d.channel)
           read == [d.sample EXCEPT ![d.channel] = 256 * d.msb + byte]
           last == next <= d.channel
       IN  [channel |-> next,
            msb     |-> NoByte,
            sample  |-> IF last THEN NoValues ELSE read,
            samples |-> IF last THEN Append(d.samples, read) ELSE d.samples]

(* Decode, and the bytes kept for the next page: none when a sample is      *)
(* complete.                                                               *)
DecodeAndKeep_Forgotten(mask, w, byte) ==
  [decoder |-> Decode(mask, w.decoder, byte), wrapped |-> << >>]

DecodeAndKeep(mask, w, byte) ==
  LET d == Decode(mask, w.decoder, byte)
  IN  [decoder |-> d,
       wrapped |-> IF Len(d.samples) > Len(w.decoder.samples) THEN << >>
                                                              ELSE Append(w.wrapped, byte)]

(* The decoder after some bytes.                                           *)
Replay(mask, bytes) ==
  LET d[i \in 0 .. Len(bytes)] ==
        IF i = 0 THEN Decoder(mask) ELSE Decode(mask, d[i - 1], bytes[i])
  IN  d[Len(bytes)]

(* The bytes of a page behind those that are decoded again.                 *)
ReadPage(mask, wrapped, bytes) ==
  LET w[i \in 0 .. Len(bytes)] ==
        IF i = 0 THEN [decoder |-> Replay(mask, wrapped), wrapped |-> wrapped]
                 ELSE DecodeAndKeep(mask, w[i - 1], bytes[i])
  IN  w[Len(bytes)]

(* processLogging: the session after the page.  The samples of the page go  *)
(* out as an event that tells how many came before.                        *)
processLogging(mask, session, buffer) ==
  LET first   == session.page = 2
      read    == ReadPage(mask, session.wrapped, Values(buffer, first))
      samples == read.decoder.samples
  IN  [page        |-> session.page + 1,
       wrapped     |-> read.wrapped,
       samplecount |-> session.samplecount + Len(samples),
       over        |-> Ends(buffer, first) # {},
       events      |-> IF samples = << >> THEN session.events
                       ELSE Append(session.events,
                                   [prevsamplecount |-> session.samplecount, samples |-> samples])]

(* initDownload, for a node that was not asked for a download before.       *)
NewSession == [page |-> 2, wrapped |-> << >>, samplecount |-> 0, over |-> FALSE, events |-> << >>]

(* The worker asks for the pages one by one until the session is over.      *)
Download(mask, pages) ==
  LET s[p \in 0 .. Len(pages)] ==
        IF p = 0 THEN NewSession
        ELSE IF s[p - 1].over THEN s[p - 1]
        ELSE processLogging(mask, s[p - 1], pages[p])
  IN  s[Len(pages)]

-----------------------------------------------------------------------------
(* What a download has to tell: the samples of a session's bytes, two for   *)
(* each channel, the channels in order.                                    *)
Masks == { mask \in SUBSET Channels : Cardinality(mask) >= 2 }
Byte  == 0 .. 255

Width(mask)           == 2 * Cardinality(mask)
Offset(mask, samples) == Width(mask) * samples
Rank(mask, c)         == Cardinality({ m \in mask : m < c })
Value(bytes, i)       == 256 * bytes[i + 1] + bytes[i + 2]

(* The values of some channels in the sample behind so many others.        *)
Partial(mask, bytes, samples, channels) ==
  [c \in Channels |-> IF c \in channels
                      THEN Value(bytes, Offset(mask, samples) + 2 * Rank(mask, c)) ELSE 0]

SampleOf(mask, bytes, k) == Partial(mask, bytes, k - 1, mask)

(* Events tell consecutive samples when each one tells those behind the      *)
(* ones told before it.                                                    *)
Told(events, e) == IF e = 0 THEN 0 ELSE events[e].prevsamplecount + Len(events[e].samples)

Consecutive(events, count) ==
  /\ \A e \in 1 .. Len(events) : events[e].prevsamplecount = Told(events, e - 1)
  /\ count = Told(events, Len(events))

InPlace(mask, bytes, events) ==
  \A e \in 1 .. Len(events) : \A j \in 1 .. Len(events[e].samples) :
    events[e].samples[j] = SampleOf(mask, bytes, events[e].prevsamplecount + j)

(* A memory with a session of n samples, whose header is behind the first    *)
(* at bytes, on the first page.  Behind the session is another header or    *)
(* memory that was never written.  The samples must not look like a header, *)
(* the last byte of the last one together with what follows included.      *)
IsHeader(memory, i) == memory[i] = 255 /\ memory[i + 1] = 255

HoldsSession(memory, length, at, mask, n) ==
  LET first == at + HeaderLength
      end   == first + Width(mask) * n
  IN  /\ memory \in Seq(Byte) /\ Len(memory) % length = 0 /\ end + 2 <= Len(memory)
      /\ length % 2 = 0 /\ at % 2 = 0 /\ first <= length
      /\ IsHeader(memory, at + 1) /\ \A i \in 1 .. at : ~ IsHeader(memory, i)
      /\ IsHeader(memory, end + 1) /\ \A i \in first + 1 .. end : ~ IsHeader(memory, i)

Pages(memory, length) ==
  [p \in 1 .. Len(memory) \div length |-> SubSeq(memory, length * (p - 1) + 1, length * p)]

(* Its samples come out whole, each once and in order, an event tells how    *)
(* many there were before it, and nothing of what follows is taken for a    *)
(* sample.                                                                 *)
SessionDecoded(memory, length, at, mask, n) ==
  LET session == Download(mask, Pages(memory, length))
      bytes   == [i \in 1 .. Width(mask) * n |-> memory[at + HeaderLength + i]]
  IN  /\ session.over /\ session.wrapped = << >>
      /\ Consecutive(session.events, n)
      /\ InPlace(mask, bytes, session.events)

-----------------------------------------------------------------------------
(* Memories to try it on.                                                  *)
Header       == [i \in 1 .. HeaderLength |-> IF i <= 2 THEN 255 ELSE 0]
Zeros(n)     == [i \in 1 .. n |-> 0]
Erased(n)    == [i \in 1 .. n |-> 255]
Data(n, gap) == [i \in 1 .. n |-> IF i % gap = 0 THEN 255 ELSE i]

Memories(length, at, mask, n) ==
  { LET used == Zeros(at) \o Header \o Data(Width(mask) * n, gap) \o rest
    IN  used \o Erased(length - (Len(used) % length)) :
      gap \in { 5, 99 }, rest \in { Header, << >> } }

(* The sessions among them that are not decoded.                           *)
Tried ==
  [mask   : { { 0, 1 }, { 0, 7 }, { 2, 4, 5 }, { 1, 2, 3, 6 }, Channels },
   length : { 14, 16, 18, 20, 22, 24, 26, 28, 30 },
   at     : { 0, 2 },
   n      : 1 .. 3]

Undecoded ==
  { x \in Tried : \E memory \in Memories(x.length, x.at, x.mask, x.n) :
                   /\ HoldsSession(memory, x.length, x.at, x.mask, x.n)
                   /\ ~ SessionDecoded(memory, x.length, x.at, x.mask, x.n) }
=============================================================================
