------------------------------- MODULE Channel -------------------------------
(***************************************************************************)
(* An mtd::Channel and what its EpollPoller and the kernel know of it      *)
(* (server/include/channel.h, server/src/epollpoller.cpp), as a record:    *)
(*   events   events_: the events the channel is interested in             *)
(*   index    index_: kNew, kAdded or kDeleted                             *)
(*   mapped   channels_ of the poller has the descriptor                   *)
(*   epoll    what is registered with epoll for it, or Absent              *)
(*   fatal    epoll_ctl has failed on an ADD or a MOD, which ends the      *)
(*            process in LOG_FATAL                                         *)
(* Every operator returns the record after the call.                       *)
(***************************************************************************)

\* No registration; no set of events is equal to it.
Absent == {"absent"}

kReadEvent == {"IN"}
kWriteEvent == {"OUT"}
kNoneEvent == {}

Channels ==
  [events : SUBSET {"IN", "OUT"}, index : {"kNew", "kAdded", "kDeleted"},
   mapped : BOOLEAN, epoll : {Absent} \cup SUBSET {"IN", "OUT"},
   fatal : BOOLEAN]

NewChannel ==
  [events |-> kNoneEvent, index |-> "kNew", mapped |-> FALSE,
   epoll |-> Absent, fatal |-> FALSE]

\* epoll_ctl(): ADD fails on a descriptor that is registered, MOD and DEL on
\* one that is not; a failed DEL is only logged.
EpollAdd(ch) ==
  IF ch.epoll = Absent THEN [ch EXCEPT !.epoll = ch.events]
  ELSE [ch EXCEPT !.fatal = TRUE]

EpollMod(ch) ==
  IF ch.epoll # Absent THEN [ch EXCEPT !.epoll = ch.events]
  ELSE [ch EXCEPT !.fatal = TRUE]

EpollDel(ch) == [ch EXCEPT !.epoll = Absent]

\* Wrong on purpose: the interest is taken away by a MOD to nothing, which
\* leaves the descriptor registered.
NoInterestByMod(ch) == EpollMod(ch)

\* Line 82: a channel without interest is taken off.
NoInterest(ch) == EpollDel(ch)

\* EpollPoller::UpdateChannel().
UpdateChannel(ch) ==
  IF ch.index = "kNew"
    THEN EpollAdd([ch EXCEPT !.index = "kAdded", !.mapped = TRUE])
  ELSE IF ch.index = "kDeleted"
    THEN EpollAdd([ch EXCEPT !.index = "kAdded"])
  ELSE IF ch.events = kNoneEvent
    THEN [NoInterest(ch) EXCEPT !.index = "kDeleted"]
  ELSE EpollMod(ch)

\* EpollPoller::RemoveChannel().
RemoveChannel(ch) ==
  [(IF ch.index = "kAdded" THEN EpollDel(ch) ELSE ch)
     EXCEPT !.index = "kNew", !.mapped = FALSE]

EnableReading(ch) == UpdateChannel([ch EXCEPT !.events = @ \cup kReadEvent])
EnableWriting(ch) == UpdateChannel([ch EXCEPT !.events = @ \cup kWriteEvent])
DisableWriting(ch) == UpdateChannel([ch EXCEPT !.events = @ \ kWriteEvent])
DisableAll(ch) == UpdateChannel([ch EXCEPT !.events = kNoneEvent])

IsWriting(ch) == "OUT" \in ch.events
=============================================================================
