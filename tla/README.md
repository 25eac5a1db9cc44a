# sippak in TLA+

sippak is a command line SIP user agent: it sends one request (OPTIONS, MESSAGE,
NOTIFY, REFER, PUBLISH, SUBSCRIBE, REGISTER or INVITE), repeats it with
credentials when the server asks for them, says what came back, and quits.  It is
a single threaded program over pjsip, the SIP stack of pjproject, which is not
part of the repository.  This directory holds TLA+ modules that model it, the
TLC configurations that check them, and theorems that TLAPS proves about them.

A module is modelled from the C file it names, not from its documentation; what
belongs to pjsip is modelled from the way sippak uses it, and marked external.

## 1. Inventory

| component | files | state it keeps | operations |
|---|---|---|---|
| main | `main.c`, `include/sippak.h.in` | `sippak_loop_stop`, `struct sippak_app` | set up, dispatch on the command, main loop, clean up |
| ping, notify, message, refer | `mod/*.c` | `auth_tries`, `auth_sess` | `sippak_cmd_*`, `on_rx_response`, `send_cb` |
| publish | `mod/publish.c` | `auth_tries`, the publish client of pjsip | `sippak_cmd_publish`, `on_rx_response`, `publish_cb` |
| subscribe | `mod/subscribe.c` | `auth_tries`, dialog and subscription of pjsip | `sippak_cmd_subscribe`, `on_rx_response`, `on_evsub_state`, `on_rx_notify`, `on_tsx_state` |
| register | `mod/register.c` | three flags of the command line, the registration client of pjsip | `sippak_cmd_register`, `reg_callback` |
| invite | `mod/invite.c` | `early_cancel`, `inv` (the call, in pjsip) | `sippak_cmd_invite`, `on_rx_response`, `call_on_state_changed` |
| mangler, helpers | `mod/sip_mangler.c`, `app/sip_helper.c` | list of custom headers | add headers to what is sent, build URIs, set credentials and routes, create the transport |
| command line | `app/getopts.c` | `app.cfg` | parse options, defaults, post-parse |
| media | `app/media_helper.c` | table of codecs, list of chosen ones | parse a codec list, build an SDP offer |
| DNS | `app/dns.c` | the resolver of pjsip | parse the list of name servers, create the resolver |
| logger, usage | `mod/logger.c`, `app/usage.c` | none | print |

How they interact.  `main` parses the command line, calls one `sippak_cmd_*`
function, which registers a pjsip module and sends the request, then turns the
main loop: test `sippak_loop_stop`, call `pjsip_endpt_handle_events` with a
timeout of 500 ms, and again.  All callbacks run inside `handle_events`, several
of them in one call if there is work.  Their only way to end the program is
`sippak_loop_cancel`, which sets the flag.  Modules registered in front of the
transaction layer see every copy of every response; the callbacks behind it see
the end of each transaction once.  The flag, the count of authentication tries
and the state pjsip keeps are thus written by two layers for the same event.

What is hard here:

- *Ordering*: the module in front of the transaction layer acts before the layer
  does; more callbacks follow in the batch after the flag is up; a NOTIFY may
  overtake the answer to its SUBSCRIBE; a CANCEL crosses a 200.
- *Unreliable delivery*: responses are lost, repeated and late over UDP;
  counters count copies.
- *Timeouts and failures*: a transaction that nobody answers ends with a status
  no response carries; any call of pjsip in a callback may fail.
- *Termination*: the program ends only if some callback raises the flag.
- *Limits*: a 16 bit counter, lists of twelve headers and proxies, a sentinel in
  the list of codecs, a 16 bit port.
- *Twice read, shared*: flags of the command line read when asking and when
  explaining; one header node linked into several messages.

What makes each part correct:

- main: the loop is left only through the flag, after a request was sent.
- ping, notify, message, refer: exactly one retry, with credentials, after a
  challenge; failure is declared only after two challenges; a run that sent
  credentials waits for the answer to them; every run ends.
- publish: the status reported is the last request's; no final answer is lost between
  the module and the client; the authentication fails only if the credentials were
  refused; every run ends.
- subscribe: a timeout is that of the last SUBSCRIBE; the loop is released by an
  outcome, a timeout or a refusal; only an accepted or pending subscription may keep
  the program running.
- register: the explanation matches what was asked; every run ends.
- invite: an answered call is acknowledged and hung up, the CANCEL that crossed
  its answer notwithstanding; the loop is released exactly when the call is over.
- mangler: what is put on the wire carries each custom header once; the headers of
  a message stay its own.
- command line: limits hold, event and document agree, a destination that is no URI
  is refused.
- media: an INVITE offers what the last list of codecs asked for.
- DNS: as many servers as were given, or as the system has, in order, within the
  limit; no request without one.

`PROJECT.json` lists the hazards one by one, each at its line, with the
properties that cover it.

## 2. Plan

Written in this order; all of it is done.

1. `Endpoint`: setup, main loop, transactions, network, server.
2. `OneShot` and `Request`: what a command promises, and the four commands that
   keep the promise in their own callbacks.
3. `Publish`, `Subscribe`: the commands with a client, or a dialog, in pjsip and
   a counter of their own in front of it.
4. `Register`, `Invite`.
5. Proofs for the shared endpoint, `Request` (with its refinement), `Publish`
   and `Subscribe`.
6. Proofs for `Register`.
7. `Options`: the command line of `getopts.c` up to the request it leads to, and
   its proofs.
8. `Mangler`: circular lists of headers as functions from nodes to nodes, one
   node linked into the messages of a run; what is printed, and when a list loses
   its end.
9. `Codecs` and `Resolver`: the list of codecs with its sentinel, the list of name
   servers with its limits; components without a next-state relation of their own.
10. `Startup`, which composes both with `main.c`, from its first line to the
    request or to the end that a failure makes, and its proofs.
11. Proofs for `Invite`.
12. Proofs for the lists of `Mangler`, and for the name servers of `Resolver` as
    `Startup` reads them.

The refinement of `OneShot` by `Publish` is not planned: as the run
`publish_early` shows, it does not hold.

## 3. Modules

### Endpoint

What all commands share, as `VARIABLES` and parts of actions that each command
EXTENDS.

| TLA+ | code |
|---|---|
| `cmd`, `proto` | `app.cfg.cmd`, `app.cfg.proto` |
| `pc` | in `sippak_cmd_*` ("setup"), before the test of the loop ("test"), in `handle_events` ("poll"), returned ("exited") |
| `step` | how far `sippak_cmd_*` has come among its fallible calls, listed by `Setup(cmd)` in their order |
| `loopStop` | `sippak_loop_stop` |
| `batch` | callbacks run by the present `handle_events` |
| `sent`, `status` | the client transactions, and `tsx->status_code` of the finished ones |
| `net`, `heard` | responses sent by the server; those that arrived at least once |

`SetupStep`, `SetupFails` and `SendRequest` are the calls of a `sippak_cmd_*`
function, each of which may fail and return (`SIPPAK_ASSERT_SUCC`); `LoopTest` and
`PollReturns` are the main loop.  `UasRespond` is the server: any provisional
responses, one final response for each request.  A member of `net` may arrive
never, late, or again and again (over TCP once), in any order: loss, duplication
and reordering are all there.  `Callback`, `Arrive` and `EndTsx` are the parts
from which the commands make their callbacks.

A server repeats its final response unchanged, as RFC 3261 asks; responses to
requests that were never sent are left out.

### OneShot, Request

`Request` is PING, NOTIFY, MESSAGE and REFER: the four files hold the same two
callbacks.  `Deliver` is a response going through `on_rx_response`, which raises
the flag for anything but 401 and 407, then through the transaction layer to
`send_cb`, which repeats the request once (`Resend`) and gives up at the second
challenge (`GiveUp`).  `TsxTimeout` and `TransportFails` call `send_cb` without a
response.  `OneShot` is the abstract specification, in terms of requests sent and
things said; `Request` implements it with `sent` for `requests`, and `phase` and
`said` computed from `pc` and from what was heard.

### Publish

The publish client of pjsip repeats the request itself, as long as it has
credentials left to offer (`ClientEnds`: it may do so or report the challenge).
`on_rx_response` counts every response, of any kind, and takes a challenge for the
last one when the count exceeds 1.  The counter is an `unsigned short`:
`TriesRange` is the number of its values.

### Subscribe

The state of pjsip's subscription is `evsub`; `OnEvsubState` is the callback that
raises the flag when it is active or terminated, `UsageEnds` what happens at the
end of a SUBSCRIBE transaction (including `on_tsx_state`, which prints a timeout),
`RxNotify` a NOTIFY, possibly ahead of the answer.

### Register

`flags` are `is_clist`, `cancel` and `cancel_all_reg`.  They decide what is asked
(`RegisterRequest`, `Contact`) and later what is said (`RegSuccess`);
`request` keeps what went on the wire, `said` what was printed.

### Invite

`inv` is the state of pjsip's call, `method` tells INVITE, CANCEL and BYE
transactions apart.  `Early` and `Confirmed` are the two states in which
`call_on_state_changed` sends something (`Start`, which may fail, and whose failure
the code does not look at); `Disconnected` raises the flag; `Releases` and `Acks` are
`on_rx_response`, in front of the transaction layer, with its 487.  What pjsip does
at the end of each transaction is in `InviteEnds`, `CancelEnds` and `ByeEnds`:
challenges are answered, a success confirms, anything else disconnects.  Two things
are assumed of pjsip: the end of a CANCEL does not end the call, its INVITE does
(RFC 3261 9.1); and after a CANCEL the INVITE ends at the latest by its timer.
Every 1xx but 100 is taken to carry a tag, so that the call becomes early.

### Options

The command line, from `sippak_getopts` to what the command puts in its message.
It does not share state with `Endpoint`: the options are all read before the first
call of the setup.

| TLA+ | code |
|---|---|
| `Option` and the actions built on it | a turn of the loop over `pj_getopt_long` with the function it calls |
| `hdrCnt`, `proxyCnt`, `proxies` | `hdrs.cnt`, `proxy.cnt`, `proxy.p`, each proxy being a loose route or not |
| `presEv`, `event`, `ctypeE`, `ctypeMedia`, `isMwi` | the fields of these names, which `--event`, `--content-type` and `--mwi` write |
| `Finish` | `sippak_parse_argv_left` and `post_parse_setup` |
| `NotifyRequest`, `PublishRequest`, `SubscribeRequest`, `MessageRequest` | the Event header, the type and the kind of body that the four commands make of these fields |

The guard of `add_custom_header` lets one header too many through.  It is stored
behind the array, where `proxy.cnt` lies: `Garbage` is the low half of the pointer
stored, taken to be greater than the limit.  A proxy too many is stored behind the
whole structure: what it overwrites there is not known, so the command line either is
read on, with one proxy more in `proxies`, or ends in `overrun`, from where nothing is
said (`PastTheArray`).

### Mangler

`mod_sip_mangler` adds headers to every request each time it is transmitted, also to
repetitions and to the ACKs that pjsip makes by itself.  The headers of a message
are a circular, doubly linked list without a length: `heap.next` and `heap.prev` are
functions from nodes to nodes.  A User-Agent header is allocated from the pool of
each message, but the node of a custom header is made once, by `getopts.c`, and
`pj_list_push_back` does not take it out of the list it was in.

| TLA+ | code |
|---|---|
| `custom`, `ua`, `cancel` | `app.cfg.hdrs`, `app.cfg.user_agent`, `app.cfg.cancel` |
| `kind`, `answer`, `retried` | the requests made in a run and what happened to each (pjsip) |
| `Node`, `heap` | the list nodes of all headers and their `next` and `prev` |
| `PushBack`, `Walk`, `Find` | `pj_list_push_back`, a walk from the root, `pjsip_msg_find_hdr_by_name` |
| `Closed` | such a walk comes back to its root, as printing and `pjsip_auth_clt_reinit_req` need |
| `AddHeader`, `AddAgent`, `AddCustom`, `AddAllCustom`, `AddSipHeaders` | `sippak_add_sip_headers`: one header; the User-Agent; a custom header; the loop over all of them; the whole |
| `Transmit` | `on_tx_request`, and the printing of a message not printed yet |
| `Reinit` | `pjsip_auth_clt_reinit_req`, which looks for credentials sent before and has the message printed again |
| `todo` | the messages a callback makes and sends, one after the other |
| `lost` | the message whose list was walked without coming back to its root |

pjsip's own headers of a message are one node.  Only a custom header with the name
of one of them that the code is known to make (`Contact`) is looked at.
`lost` stops the run: the program hangs in the walk, or reads the root of another
message as if it were a header.

### Codecs, Resolver, Startup

`Codecs` is `media_helper.c`: `StartList`, `NameCodec`, `NameAll` and `EndList` are the
parsing of one `--codec`, name by name, into `codec` and `cnt`; `RegisterAll` and
`RegisterOne` are the registration from which pjsip makes the offer.  Names are
compared from their beginning, and the order of comparison makes `g722` hide
`g722.1`: `Prefixes` says which names a token begins with, `asked`
keeps the names of the last list as they were given, and `AsRead` is what the parser takes
them for.  A count equal to
the number of codecs stands for all of them.

`Resolver` is `dns.c`: `source` is the string of `--ns`, already split, or the list of
the system; `ReadGiven` and `ReadSystem` are turns of the two loops; `GetPort` is the
default of a missing port and the truncation to 16 bits.

`Startup` EXTENDS both.  `pc` goes through the steps of `main` (`After`), each of which
may fail and make `main` return (`failed`); help, version and an unknown command go to
the clean-up (`done`); a command that has all it needs ends in `sending`, where
`Endpoint` takes over; `crashed` is the null pointer that `sippak_create_reg_ruri` does
not test.  `Options` reads the same command line for other purposes; the options of one
module do not change what the other one keeps.

### MC modules

`MCRequest`, `MCPublish`, `MCSubscribe`, `MCRegister` and `MCInvite` give the
status codes of the instance that TLC checks, `MCOptions` the value of `Garbage`,
`MCMangler` the names of headers and the custom headers, `MCStartup` the codecs, tokens and name servers;
the bounds are in the .cfg files.

## 4. Runs

| run | states | shows |
|---|---|---|
| `request` | 28 000 | The loop is released by an answer or a failed authentication only; failure needs two challenges; the answer to a retry is awaited; an answered or refused run ends, and only a timeout, a failed transport or a retry that could not be sent keeps a run from ending; PING, NOTIFY, MESSAGE and REFER implement `OneShot`. |
| `request_timeout` | | Counterexample: a request that nobody answers ends with 408 in `send_cb`, which looks at 401 and 407 only; the loop turns for ever. |
| `publish` | 69 000 | The loop is released by a verdict only; the status reported is the last request's; a final answer to it always releases the loop, even when the counter has gone round; over TCP, without provisional responses, failure is earned; every run ends. |
| `publish_early` | | Counterexample: a provisional response, or a copy of the challenge, makes the first challenge count as the second, and the failure of credentials that were never sent is declared. |
| `subscribe` | 22 000 | The loop is stopped by an outcome, a timeout or a refusal; a timeout printed is the last request's; over TCP a refusal is one of the credentials; runs end unless the subscription stays accepted or pending. |
| `register` | 62 000 | What is said is what was asked, for all combinations of the flags and an `--expires` above 0; every run ends. |
| `invite` | 197 000 | The loop is released exactly when the call is over; an answered call is acknowledged and hung up; runs end unless left ringing or unless the BYE cannot be sent. |
| `options` | 105 000 | The proxies counted are those kept and start with a loose route; event and document of a NOTIFY agree in any order of the options; NOTIFY and SUBSCRIBE know the alias; no PUBLISH is made without an expiry. |
| `options_headers` | | Counterexample: the guard lets a header too many through, which overwrites the count of proxies. |
| `mangler` | 3 700 | What is printed carries each custom header once, and one User-Agent, whatever the user repeats and whatever sends it (only pjsip's own Authorization may stand beside the user's); only a message handled again after a newer one loses the end of its list. |
| `mangler_shared` | | Counterexample: an INVITE with a custom header is challenged; the ACK of the challenge takes the header over, and the walk through the INVITE, to add credentials, never ends. |
| `startup` | 2 303 000 | An INVITE offers what the last list was read to ask for, in order, every codec given by a name that no other hides, and everything exactly if it says all; the servers are those asked for, in order, up to the limit, with the ports that were given; a destination that is no URI reaches no request. |

### Bounds

- `Codes`: one member of each class the code tells apart.  100 or 180
  (provisional), 200 (success), 401 and 407 (both challenges where the code names
  both or either), 404 (failure), 487 in `Invite`.  408 and 503 are made up by the
  transaction layer in addition; in `Subscribe`, which prints a timeout, a server may
  answer 408 as well.
- `MaxTsx`: room for transactions.  3 in `Request`, `Publish` and `Subscribe`, one
  more than a run with a retry needs, so that a third request would show (in
  `Request` it must not happen, in the others pjsip may have more credentials to
  offer).  2 in `Register`, whose own code does not count.  4 in `Invite`: INVITE,
  INVITE with credentials, CANCEL, BYE.
- `BatchMax`: callbacks in one `handle_events`; 2 or 3, enough for callbacks that
  follow the one that raised the flag.
- `TriesRange`: 4 in `publish`, so that the counter goes round; 65536, its real
  size, in `publish_early`.
- `ExpiresValues`: 0 and the default 3600.  With 0 only the message "registered" is
  left out of `SaidIsTrue` (see 7).
- `MaxHeaders`, `MaxProxies`: 2 where the code has 12; `MaxArgs`: 5, so that a
  command line can go past the limit of either list by one and try once more, and
  can give every option that writes the kinds of event and document in any order,
  some of them twice.
- `CustomLists`: no custom header, one, two, the same twice, and those with the name of
  a header that messages have anyway or may get (`Contact`, `User-Agent`,
  `Authorization`); `HeaderName` has these three and one more.  `MaxCustom`: 2 where the
  code has 12, enough for one header to be taken over by a newer message while another
  is looked for.
- `MaxMsg`: 5, enough for INVITE, the ACK of its challenge, CANCEL, and the two ACKs
  of its end, or for INVITE, two ACKs and BYE.
- `MaxArgs` in `startup`: 6 options and names of codecs, enough for a list after a longer
  one, repeated and hidden names, `all` before and after others, and a user name or
  name servers with them.  Five codecs stand for the twelve, with one hidden and one
  not built in; no list can then reach the count that stands for all, as in the code.
- `MaxServers`: 3, with up to four servers given and five in the system; `PortRange`:
  its real size.  `ServersAreAsAsked` does not ask for a port of a server of the
  system that has none: the code stores what `res_init` found.

`net` and `heard` are sets: a response arrives any number of times, and no bound
on copies is needed.

### Fairness

`LoopFairness` is weak fairness of `LoopTest` and `PollReturns`: `handle_events`
returns when its 500 ms are over, and the loop comes back to its test.  `Timers` is
strong fairness of the timeout of a pending transaction: `handle_events` runs the
timers that have expired, but they are enabled only while it runs, hence strong.
Nothing is assumed of the server, of the network, or of the order in a batch.
Of `Request`, only `RequestEnds` needs `Timers`: the other liveness properties start from
an answer or a refusal that has come.

Deadlock is checked in every run of a command; after the end of the program the
action `Terminated` stutters.  It is not checked in the runs of `Options`,
`Mangler` and `Startup`, where a request made, a message that hangs, a failure or
a help text really is the end.

## 5. Proofs

Proved for every set of status codes within 100..699, every bound and every
width of the counter, from the assumptions named in `Endpoint`, `Publish`, `Register`,
`Options`, `Mangler`, `Codecs`, `Resolver` and `Startup`.

`Endpoint_proofs`: `EndpointInv` is the part of the invariant that all commands
share.  `ControlInv` says where the program is (nothing was sent in the setup, the
setup is complete in the loop, the loop is left only with the flag up); `NetInv`
that a server answers what was sent, with one final code per transaction.  The
steps of main and of the server keep it (`EndpointNextInv`) and leave the rest alone
(`EndpointNextFrame`); a callback keeps it as long as it starts transactions within
bounds and records statuses (`CallbackInv`).  `SendComesLast` and `ModuleComesFirst`
are facts about the setup of all commands.

`Request_proofs`: an inductive invariant of which transactions have ended with a
challenge and how many tries that makes; from it type correctness, the four safety
properties and the refinement of `OneShot`, step by step.

`Publish_proofs`: `ChainInv` (each transaction but the last ended with a challenge
that came from the network) and `CountInv` (as long as only final answers to the
first request were heard, over TCP, the counter is 0 or 1).  The second is what
`FailureIsEarnedOverTcp` lacks to be inductive; the first gives that an
answer to a later request means an earlier challenge.  `EndedInv` (the end of the
last transaction was reported) gives `AnswerIsHeeded`, whatever the counter has come to.

`Subscribe_proofs`: the challenges counted are bounded by the callbacks of the batch
that follows the second, so the 16 bit counter cannot go round; over TCP they are
different responses.

`Register_proofs`: `FlagsInv` relates the request sent and the words printed to the
flags both were computed from; `MessageIsTrue` follows for every combination and
every `--expires` above 0.

`Headers_proofs`, of `Options`: `CountInv` and `LooseInv` say what the lists hold before and after the
header that overwrites the count of proxies (which then exceeds its limit, so that no
proxy is added any more), `KindInv` where the kinds of event and document come from,
before and after `--mwi` prevails, `RequestInv` that the message is made of the final
ones.  It holds for any limits and any number of options in any order.

`Headers_proofs`, of `Mangler`: the links of `heap` alone do not tell why they are as they
are, so the invariant says that some history explains them: `linked[m]`, the nodes that
were linked into message `m`, and `owner[i]`, the message that the custom header `i` was
linked into last (`ListsInv`).  Headers are linked in the order of their `Rank`; a node
that is still its message's own points to the one of next higher rank (`Follows`), and
a node that has gone to another message went to a newer one.  From this:

- a list that lost no node is a tour of what was linked into it: its walk ends, and a
  search finds a header exactly if one of that name was linked (`IntactTour`,
  `TourFind`, `TourNames`);
- a walk through a list that did lose a node goes on through newer messages and never
  comes back to its own root (`BrokenWalk`, `BrokenFind`): the search finds the header,
  or the message is lost, but never is a header taken to be absent and linked again;
- linking a node keeps the history true (`PushBackInv`); adding the headers to a message
  changes nothing if it has them (`CompleteKeeps`) and completes it if it is new
  (`FreshCompletes`).

With what the queue of a callback may still hold (`TodoInv`, `WireInv`: only the message
sent next is not printed) there is one lemma for each action, and `WireCarriesHeaders`
and `LossNeedsNewerMessage` follow for any custom headers and any number of messages.
The walk is a function of the number of steps; where the argument is an induction over
them, it goes by the least step that would be a counterexample.

`Invite_proofs`: the loop flag and the state of the call can be told equal only if it
is known why a 487 in front of the transaction layer is never one of a call that
stands.  `StatusInv` (a final status came from a response that was heard, or was made up),
`PlausibleInv` (a 487 belongs to an INVITE) and `FailInv` (an INVITE that failed for good
ended the call) give it for late copies (`LateCancelled`); for the first copy the
step itself ends the call.  `OpenInv` (one INVITE at a time, and none beside a BYE) is
what makes each end of a transaction meet a known state of the call; `SuccessInv`
carries the theorem of the answered call.  There is one lemma for each kind of effect on
the call (`IgnoredKeeps`, `EarlyKeeps`, `ConfirmedKeeps`, `InviteRepeats`, `ByeRepeats`,
`OverKeeps`), and one for each action.

`Startup_proofs`: while a list is parsed, the codecs found are the names as read, once each
and in order, and a name that no other hides is read as itself (`UnhiddenName`); they
are fewer than the codecs there are, because some name is hidden (`HiddenAssumption`), and so a list never passes for all.  The offer is then a
prefix of the codecs found.  The destination is good from the dispatch of a request
on, but for the REGISTER with a user name.  While name servers are read, `rest` is the
tail of `source` not yet read, and each server wanted before it is kept at its `Place`, if
that is within the limit (`ReadInv`); so when the reading stops, whichever of its
conditions stops it, the servers left out are those there was no room for (`AllReadKeeps`).

The proofs in each module go: initial states, one lemma for the external client at
the end of a transaction, one for each step, then `Spec => []IInv` and the theorems.

Every invariant and action property of the runs that pass is stated by a theorem.  Only
model-checked are the liveness properties (`AnsweredRunEnds`, `RefusedRunEnds`,
`RequestEnds`, `PublishEnds`, `SubscribeEnds`, `RegisterEnds` and `InviteTerminates`):
the prover cannot reason about fairness, which needs ENABLED.

## 6. Not modelled

- pjsip itself: parsing, transports, timers and digests.  It appears as the
  transitions sippak can observe.
- The text of messages and headers, the PIDF document, SDP bodies, the printing
  of contacts, `logger.c` and `usage.c`: no state.
- Of `getopts.c`, the options that are only copied (log, ports, names, contact).
- Of `sip_helper.c`, the text of URIs and contacts, and the copying of credentials and
  routes.
- What the clean-up of `main.c` frees, and pjmedia's worker thread, which still runs when
  an INVITE's run destroys the pools: both belong to pjsip.
- The life time of pjsip's objects: the model keeps the call to the end of the run,
  so an access after its destruction would not show.
- `handle_events` returning early or failing: the result is not looked at
  (`main.c`), and `PollReturns` is enabled at any time.

## 7. Divergences that no run shows

The runs that expect a violation show where the code does not do what its
documentation, or a test, says.  More were met, which need no run to be seen:

- `usage.c:80` says of `--expires` that it "Must be number more then 0"; `getopts.c`
  checks that it is numeric, `publish.c` refuses a value below 1, `register.c` does not:
  with `-X 0` the contact is removed, and "Successfully registered" printed.
  `SaidIsTrue` therefore leaves this message out for 0.
- `usage.c:92` gives `mwi` as an alias of `message-summary` for subscribe, publish and
  notify; PUBLISH sends the event as it was typed.  `AliasIsUnderstood` is therefore
  stated of the other two.
- `usage.c:131` says "Multiple proxies (up to 12) can be added", and `getopts.c:207` prints
  the same limit; the guard is `proxy.cnt > MAX_PROXY_HEADERS` (`getopts.c:206`), so a 13th
  proxy is stored in `p[12]`, behind the array and, since `proxy` is its last member,
  behind `struct sippak_app`.  It is the same guard as that of the custom headers, which
  the run `options_headers` shows; `Options` ends in `overrun` or goes on.
- `usage.c:126` says that up to 12 custom headers can be added; `sippak_add_sip_headers`
  adds one only if the message has none of that name, so that the second of
  `-H "X-A: 1" -H "X-A: 2"` is dropped.  `WireCarriesHeaders` counts names.
- `media_helper.c:67` compares names with `g722` before it compares them with `g722.1`, over
  four characters: `--codec g722.1` registers G.722 and no list can choose G.722.1, which
  `sippak_support_codec` and `set_media_codecs` know.  `usage.c:119` does not list it.
  `OfferIsWhatWasAsked` excepts names that another hides, and no others.
- `on_rx_response` of PING, NOTIFY, MESSAGE and REFER releases the loop for everything but
  a challenge, a provisional response included: after a 100 Trying the command returns
  before the answer, or before the answer to its retry.  `StopMeansAnswer` says what the
  code does; `RetryIsAwaited` leaves such runs out.
- When `send_cb` cannot set up the credentials, or rebuild or send the request, it returns
  and the loop goes on with nothing to wait for.  `RequestEnds` says that this and the
  timeout of `request_timeout` are the only such cases.
