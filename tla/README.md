# TLA+ models of the KAME IPv6 stack

KAME is an IPv6/IPsec stack for the BSDs. This directory models the parts of it
that are the hardest to test: the kernel's tables on which packets, timers,
ioctls and daemons act in any order - Neighbor Discovery first, then fragment
reassembly, multicast listeners, security associations and the replay window.
All paths below are relative to the root of the repository; file names without
a directory are those of `src/kame/sys/netinet6/`.

- [The system](#the-system)
- [Modules](#modules)
- [Duplicate address detection](#duplicate-address-detection)
- [Neighbor cache and default routers](#neighbor-cache-and-default-routers)
- [Prefixes and their routes](#prefixes-and-their-routes)
- [Fragment reassembly](#fragment-reassembly)
- [Security associations](#security-associations)
- [Replay window](#replay-window)
- [Multicast listeners](#multicast-listeners)
- [Runs](#runs)
- [Proofs](#proofs)
- [Where the code and its comments differ](#where-the-code-and-its-comments-differ)
- [Not modelled and limits](#not-modelled-and-limits)
- [Plan](#plan)

## The system

The repository is a kit that is laid over several BSD trees. `src/freebsd*`,
`src/netbsd`, `src/openbsd` and `src/darwin` hold patches to and copies of those
systems; KAME's own code is the kernel code in `src/kame/sys` and the programs
in `src/kame/kame`. The documents are `IMPLEMENTATION` (286-330 on DAD, 396-425
on neighbor unreachability detection), `USAGE`, `CHANGELOG*` and the manual
pages.

| Component | State | Operations | Hard behaviour | What makes it correct |
|---|---|---|---|---|
| DAD (`nd6_nbr.c`) | `dadq` entries with a callout each, flags and references of addresses | start, stop, timer, NS and NA input | probes crossing on the link; ioctls during DAD; interface down while probing | an address is used only after its probes, by one node; references balanced; no callout on a freed address |
| Neighbor cache (`nd6.c`, `nd6_nbr.c`) | `llinfo_nd6`: state, link-layer address, tries, held packets, callout | output, five kinds of packets in, timer, hints, free, drain | packets and callouts in any order; answers to entries that are gone | no entry without its callout, held packets leave, addresses known when used |
| Default routers (`nd6_rtr.c`) | `nd_defrouter`, installed route | advertisement, expiry, deletion, selection | selection re-run from a dozen places, on reachability that is changing | one installed, the best reachable, no flapping, failover |
| Prefix list, autoconfiguration (`nd6_rtr.c`, `in6.c`) | `nd_prefix`, its routers, interface routes, address lifetimes | advertisement, expiry, on-link check, ioctls | detaching and attaching as routers come and go; a route that moves between interfaces; references both ways | one owner per route; no dangling reference; nothing detached without evidence, never the last address |
| IPv6 addresses (`in6.c`, `in6_ifattach.c`) | `in6_ifaddr` | ioctls, attach, purge | changes while other components hold references | references, flags |
| Fragments (`frag6.c`) | queues of fragments, two counts, two limits | insert, time out, drain, sysctl | overlap, overflow, the first fragment coming last, failing allocations | whole packets only; exact count; oldest first; no queue for ever |
| MLD (`mld6.c`, `mldv2.c`) | group state, report timers | query, report, join, leave | report suppression races, lost and reordered messages | members are reported; only the last reporter says Done |
| IPsec (`ipsec.c`, `ah_*`, `esp_*`) | replay windows, policies | per packet | reordering, wrap-around | no packet twice |
| PF_KEY (`netkey/`) | SAs, their indices, references of policies, acquiring list | PF_KEY messages, packets, lifetimes | timers racing daemons, flushes under policies that hold SAs | states only forward, exact references, every SA ends, the daemon is asked |
| Multicast routing (`ip6_mroute.c`) | cache of upcalls | upcall, add, expire | queue limits | no packet for ever queued |
| NAT-PT (`natpt_*.c`) | session slots | open, translate, expire | reuse of slots | one session per slot |
| ICMPv6, input, output (`icmp6.c`, `ip6_*.c`) | rate limits | per packet | - | - |
| Mobile IPv6 (`mip6.c`, `mipsock.c`, `kame/shisad`) | binding cache and list | binding updates, movement, proxy DAD | lost messages, retries, movement during registration | bindings follow the node |
| ALTQ, pf, SCTP, DCCP, crypto | own | per packet | - | - |
| Daemons (`rtadvd`, `rtsold`, `route6d`, `bgpd`, `faithd`, ...) | own | messages, timers | timeouts, retries | own |

How they interact. `nd6_ns_input` and `nd6_na_input` give a packet to DAD when
its target is one of our tentative addresses, else to the neighbor cache. A
cache entry of a default router that becomes reachable or is freed triggers
`defrouter_select` and `pfxlist_onlink_check`; the latter detaches and
re-attaches autoconfigured addresses and so starts DAD. A link-local duplicate
disables the interface. `nd6_free` selects a router while the dead entry is still in the
cache. Upper layers confirm reachability by `nd6_nud_hint`. Userland acts
through `SIOCAIFADDR_IN6`, `SIOCSNDFLUSH_IN6`, `SIOCSRTRFLUSH_IN6`, `SIOCSPFXFLUSH_IN6` and the
routing socket (`ndp(8)`, `ifconfig(8)`).

Fragments, listeners and IPsec stand apart from Neighbor Discovery and share no table with it.
An outbound packet asks `key.c` for an SA for its policy's request and leaves it there
(`isr->sav`); when there is none, the kernel sends SADB_ACQUIRE to the key daemon, which
answers with SADB_GETSPI, UPDATE and ADD. An inbound packet finds its SA by SPI and passes
the replay window of that SA. Reassembly hands a whole packet to the next header's input.

Concurrency. All handlers of the modelled code run under `splnet` or
`splsoftnet` (the `s = splsoftnet()` at their heads), and none sleeps between reading and
writing the tables. One handler is therefore one step of the models, with every
call it makes included; what interleaves is the order of handlers. Callouts are
pending or not; when they run is left open, which covers every value of the
timers.

PROJECT.json lists the components not modelled with the reason, and the hazards
of this code line by line with the properties that watch them.

## Modules

| Module | What it is |
|---|---|
| `Dad` | DAD on the addresses of one node (or several) |
| `AddressLife` | abstract specification: what DAD promises about an address |
| `DadLink` | nodes of one link, each running `Dad` on the same address, with the packets between them |
| `DefaultRouters` | the default router list, as operators |
| `NeighborCache` | the neighbor cache with the default router list it drives |
| `PrefixList` | prefixes, their routers, routes and addresses |
| `Frag6` | reassembly queues |
| `SaLife` | security associations of one pair of addresses |
| `ReplayWindow` | the anti-replay window of an inbound SA |
| `Mld6` | the listeners of one group on a link |
| `Lists` | removal from the kernel's linked lists, as an operator |
| `MCDad`, `MCDadLink`, `MCNeighborCache`, `MCPrefixList`, `MCFrag6`, `MCSaLife`, `MCMld6` | instances for TLC (`ReplayWindow` has numbers only and needs none) |
| `DadProofs` (also of `DadLink`), `NeighborCacheProofs`, `PrefixListProofs`, `Frag6Proofs`, `SaLifeProofs`, `ReplayWindowProofs`, `Mld6Proofs` | theorems |
| `FoldProofs` | lemmas on folds, sums and lists for those that need them |

`Dad` implements `AddressLife` under the mapping at its end. `DadLink` extends
`Dad`; `NeighborCache` extends `DefaultRouters`. `DefaultRouters`, `Frag6` and `PrefixList`
use `Lists`. Definitions whose comment
begins with "Mutant:" are altered copies of the next definition; nothing uses them.
They are the plausible bugs that show what each property is sensitive to
(PROJECT.json "mutants").

## Duplicate address detection

| TLA+ | Code |
|---|---|
| `assigned` | the address is in `in6_ifaddr` and the interface's list |
| `flags[a]` | `ia6_flags`, the four flags DAD and the on-link check use |
| `dp[a]` | the `dadq` entry; `armed`: its callout is pending; `icount`: `dad_ns_icount` or `dad_na_icount` is not zero (they are only compared with zero) |
| `refs[a]` | reference count of the `ifaddr`, the list's and DAD's |
| `up`, `running`, `disabled` | `IFF_UP`, `IFF_RUNNING`, `ND6_IFF_IFDISABLED` |
| `DadStart` | `nd6_dad_start` on a set of addresses (`in6_if_up` and `pfxlist_onlink_check` call it in a loop) |
| `TimerSanity`, `TimerGiveUp`, `TimerProbe`, `TimerConclude` | the ways out of `nd6_dad_timer` |
| `AssignAddr`, `AssignHome`, `Reconfigure`, `PurgeAddr` | `in6_control` / `in6_update_ifa`, `in6_purgeaddr` |
| `OnlinkCheck`, `CheckedFlags` | `pfxlist_onlink_check`, the part on addresses; which prefixes have a reachable router is an input |
| `DadNsInput`, `DadNaInput` | `nd6_dad_ns_input`, `nd6_dad_na_input` behind their callers |

`malloc` may fail in every `nd6_dad_start` (the argument `nomem`).

`AddressLife` has one variable per thing a user of the address can see: its
state, the probes sent, and whether another node was heard. Its `Verify` is the
promise: a checked address becomes valid after at least `Probes` probes without a claim
since the first. `LifeSpec` states it through the mapping `LifeState`,
`UnderDad`. It holds only if no existing address is set again
(`Reconfigurable = {}`); the run `dad_stall` shows why.

`DadLink` puts one address on several nodes. `wire` is the set of packets in
flight, one copy per receiver; they are delivered in any order, and up to
`MaxLoss` copies are lost. The only assumption on time is the one behind
RetransTimer: a solicitation and its answer take less time than the timer. It
is expressed without a clock: each packet carries the set `before` of addresses
whose callouts were armed since it (or what it answers) was sent, and these callouts wait
for it. `UniqueHolder` is then the purpose of DAD: two nodes never use the address
together. Without that assumption no implementation could guarantee it.

## Neighbor cache and default routers

A host (`ip6_forwarding = 0`, `ip6_accept_rtadv = 1`) on one broadcast interface.

| TLA+ | Code |
|---|---|
| `nc[n].state` | no entry, or `ln_state` |
| `.lladdr`, `.asked`, `.router` | the gateway's `sdl` address, `ln_asked`, `ln_router` |
| `.hold` | the number of packets in `ln_hold` |
| `.expire`, `.armed` | `ln_expire # 0`; `ln_timer_ch` pending |
| `.byhint` | `ln_byhint`, up to `nd6_maxnudhint` (beyond it a hint changes nothing) |
| `.static` | `RTF_STATIC` |
| `drl` | `nd_defrouter` in order, the preferences, the `installed` flags |
| `silent` | neighbors that have crashed; no code, the environment |
| `Output` | `nd6_output` from next-hop resolution on |
| `HeardNs`, `HeardRa`, `HeardRedirect` | `nd6_ns_input`, `nd6_ra_input`, `icmp6_redirect_input` with `nd6_cache_lladdr` (`CacheLladdr`) |
| `HeardNaIncomplete`, `HeardNa` | the two branches of `nd6_na_input` |
| `NudHint` | `nd6_nud_hint` |
| `Timer...` | the cases of `nd6_llinfo_timer` |
| `NdFree` | `nd6_free` with the selection of a router while the entry's state is faked |
| `RtDrain`, `Drain` | `nd6_rtdrain`, `nd6_drain` |
| `RoutersExpire` | the loop over routers in `nd6_timer` |
| `SyncRouters`, `FlushRouters` | `SIOCSNDFLUSH_IN6`, `SIOCSRTRFLUSH_IN6` |
| `AddStatic`, `DeleteEntry` | `nd6_rtrequest`, for `ndp -s` and `ndp -d` |
| `Purge` | `nd6_purge` |

An entry can be made by cloning the interface route (with a callout) or as a
host route when no prefix covers the neighbor (without one); the argument
`cloned` chooses. A neighbor solicitation, advertisement or redirect comes
with every option left out or present, and every combination of flags, from every
neighbor that is not silent; a redirect from the default router in use, as
`icmp6_redirect_input` insists on.

Two constants restrict the environment. `Late = FALSE`: an advertisement that
claims to be solicited does not reach an entry that nobody has used yet, i.e. one
made after the entry that solicited it was gone; `Resolved` needs it (see below), nothing
else does. `Admin = FALSE`, in `nc_select`: userland leaves the tables alone, without which
a router may be dropped or a route exchanged because the user said so.

## Prefixes and their routes

`nd6_rtr.c` keeps a prefix once per interface (`Entry`), while the routing table has one
interface route per prefix value (`PrefixOf`). All state is one record `nd`, because the code's
functions call each other in chains that end in `pfxlist_onlink_check`; every operator is the
function of that name on the record, and every action is one handler.

| TLA+ | Code |
|---|---|
| `nd.list` | `nd_prefix` in order |
| `nd.entry[e]` | `ndpr_raf_onlink`; `valid`: a lifetime is left; `NDPRF_DETACHED`, `NDPRF_ONLINK`; `ndpr_advrtrs`; `ndpr_refcnt` |
| `nd.route` | prefixes that have an interface route |
| `nd.auto`, `nd.manual` | the autoconfigured address of a prefix and whether it is detached; addresses set by hand |
| `nd.routers`, `nd.reach` | `nd_defrouter`; routers whose cache entry is `ND6_IS_LLINFO_PROBREACH` |
| `Onlink`, `Offlink` | `nd6_prefix_onlink`, `nd6_prefix_offlink` |
| `Check` = `Flagged`, `Rerouted`, `Readdressed` | `pfxlist_onlink_check`: the flags, the routes, the addresses |
| `PrelistAdd`, `PrelistRemove`, `PrelistUpdate` (`Learnt`, `Ifadd`), `PfxrtrAdd` | the functions of those names |
| `DefrtrlistUpdate`, `DefrtrlistDel` | the functions of those names |
| `RaInput` | `nd6_ra_input` with at most one prefix option |
| `RouterGone`, `PrefixExpires`, `AddrExpires` | `nd6_timer`, one router, prefix or address each |
| `NeighborUp`, `NeighborDown`, `NeighborDeleted` | advertisements, `nd6_free`, `ndp -d` as far as they reach this module |
| `AddAddr`, `DeleteAddr`, `PrefixFlush` | `SIOCAIFADDR_IN6`, `SIOCDIFADDR_IN6`, `SIOCSPFXFLUSH_IN6` |

Each of the three allocations of a router advertisement may fail (`Shortage`).
`AttachedOnlink` is the point of the handover in `nd6_prefix_offlink`; `SomeAddressUsable` is the
point of calling the check wherever an address may go away (`in6_unlink_ifa`);
`DetachedForReason` is the rule stated above `pfxlist_onlink_check`.

## Fragment reassembly

| TLA+ | Code |
|---|---|
| `queue[k]` | `struct ip6q`: the set of its fragments (the list is ordered by offset), `ip6q_unfrglen`, `ttl`, `nfrag`, `ecn` |
| `order` | the list `ip6q`, newest first |
| `nfragpackets`, `nfrags`, `maxfragpackets`, `maxfrags` | the counts and limits of those names |
| `panicked` | `frag6_freef` was called on the head of the list, which is no queue; the model stops |
| `passed` | the packet the last step handed on |
| `InputDropped`, `InputStored`, `InputPassed`, `NoQueueMemory` | the ways out of `frag6_input` behind its length checks |
| `SlowTimo`, `Drain`, `SetLimits` | `frag6_slowtimo`, `frag6_drain`, the two sysctls |

A dropped fragment is not without effect: its queue is made, the first fragment's unfragmentable
length is kept and throws out stored fragments, and an ECN mark is merged before the overlap is noticed.
The actions keep that order. Offsets and lengths are in units of 8 octets; `MaxPacket` is
`IPV6_MAXPACKET`.

## Security associations

| TLA+ | Code |
|---|---|
| `sa[s]` | `struct secasvar`: state, index (`sah`), `refcnt`, seconds since `created`, whether `usetime` is set |
| `head[h]` | `struct secashead`: none, live or dead |
| `isr[i]` | `isr->sav` of a policy's request |
| `acq` | the entry on `acqtree` |
| `asked` | whether the last step sent SADB_ACQUIRE or was the daemon's word on one; history for `AskedAgain` |
| `Getspi`, `Add`, `Update`, `Delete`, `DeleteAll`, `Flush`, `AcquireFailed` | the PF_KEY messages; `OnlyHead` one that fails after making an index |
| `Outbound` | `key_checkrequest`: `key_allocsa_policy`, or `key_acquire` |
| `Inbound`, `DeletePolicy` | `key_sa_recordxfer`, `key_delsp` |
| `Tick` | `key_timehandler` |

The daemon updates only SAs it negotiates when `LateUpdate` is FALSE. That is
what the comment on `key_update` says; the run `sa_update` lifts it.

## Replay window

`ipsec_chkreplay` and `ipsec_updatereplay` bit by bit: `bitmap` is the array of bytes,
`VShiftL` is `vshiftl` with its rounds (`LastRound`), `Advanced` and `Mark` the branches of the update. `marked` is
history: the numbers the window was told of. `WindowExact` relates the two: what
`ChkReplay` lets through is exactly what the abstract set of numbers would.
`Receive` is a packet whose ICV is right, so check and update are one step, as in `ah6_input`
and `esp6_input`, which run both in one handler.

## Multicast listeners

| TLA+ | Code |
|---|---|
| `claims[h]` | the reference count of the membership |
| `state[h]`, `timer[h]` | `in6m_state`, `in6m_timer_ch` pending |
| `wire` | messages on their way, one copy per receiver; any subset is sent, the order is open |
| `last`, `due` | history: whose report was the last h knows of; h owes a report |
| `Join`, `JoinAgain`, `LeaveOne`, `Leave` | `in6_addmulti`, `in6_delmulti` with `mld_start_listening`, `mld_stop_listening` |
| `TimeoPending`, `TimeoReport` | `mld_timeo` |
| `HeardQuery`, `HeardQuery0`, `HeardReport`, `HeardNothing` | `mld_input` |

The file has two variants of joining and leaving; `FreeBSD` is the set of hosts that run the first.

## Runs

Passing runs:

| Run | Instance | What it shows |
|---|---|---|
| `dad_core` | a link-local, an ordinary and a home address, 2 probes, 2 tries; fair callouts | `DadInProgress` (an entry on `dadq` for an undecided address has its callout); `LifeSpec`, the promise of `AddressLife`; `DadSettles`: a chain of callouts ends. The link-local duplicate disables the interface and is checked again by `mip6_do_dad_lladdr` |
| `dad_userland` | an address set again at any time, an anycast and a home address | `RefsBalanced`, `NoDanglingTimer` hold even so |
| `link_pair` | 2 nodes, 2 probes, any 1 copy lost, removal and lack of memory | `UniqueHolder`; with 1 probe one lost copy is enough to break it (the mutant `TimerConcludeEarly`), so 2 is the least |
| `nc_entry` | 1 neighbor, 2 link-layer addresses, queue of 2, 3 tries, userland, fair callouts | `NeverStuck`, `HeldPackets`, `Resolved`; `HeldSettles`: held packets leave in the end |
| `nc_select` | 2 routers of either of 2 preferences, one of which may crash; fair callouts, traffic | `RouterListOK`, `SelectsBest`, `NoFlap`, `ActiveRouterKept`, `DeadRouterReplaced`; `FailsOver` |
| `frag` | a packet of 3 units with three kinds of ECN marks, one of 2 units that is 1 unit too long; limits {-1, 0, 1} and {-1, 2}; ttl 2; 1 lost count; fair slow timer | `FragsDisjoint`, `PassedWhole`, `EcnKept`, `FragsCounted`, `OldestFirst`; `QueueEnds` |
| `sa` | 2 SAs, 2 indices, 2 requests; lifetimes 1 and 2 s; blocking by 1 packet, 1 s; fair timer and traffic | `RefsBalanced`, `AliveOnLiveHead`, `StateForward`; `SaEnds`, `AskedAgain` |
| `replay` | bytes of 3 bits, 2 bytes, numbers to 11, 7 packets | `WindowExact`, `AcceptedOnce` |
| `mld` | a host of each variant, 2 claims each; fair callouts | `DoneByLastReporter`; `Reported` |
| `prefix` | 1 prefix on 2 interfaces, a router each, an address set by hand on the first | `RouteExact`, `PointersLive`, `AttachedOnlink`, `SomeAddressUsable`, `DetachedForReason` |

Bounds. There are no state constraints: the counters are bounded by the code's own limits
(`dad_maxtry`, `nd6_mmaxtries`, `nd6_umaxtries`, `nd6_maxnudhint`,
`nd6_maxqueuelen`, lifetimes, `key_blockacq_count`), given small values, or by a constant in a guard:
`MaxLost` (counts lost by `frag6_input`), `MaxClaims` (joins of a host), `MaxLoss` (copies lost in
`DadLink`). `count` of the replay window stops at `MaxCount`, the code's own end.

- `Dad`: one address of each kind is enough because handlers touch addresses one by one except
  for the on-link check and interface events, whose loops treat all others alike. A duplicate
  takes two nodes; a third would only be a bystander. The two nodes are symmetric.
- `NeighborCache`: one neighbor is enough for what concerns a single entry, since no handler writes
  two entries except `Drain` and `Purge`. Two routers, each of either preference, give every relation of
  preference and reachability between the installed and another one; the order of the
  list compares preferences, so two values stand for three. A round-robin among three equals is not in the instance.
  Two link-layer addresses make a change observable. No run turns `PerformNud` off (DELAY then
  falls back to STALE); the theorems hold for both values.
- `Frag6`: three units are the least in which a fragment has a neighbour on both sides and a
  gap can be in the middle; two packets give the list an order; the limits include none,
  zero and one below what is in use.
- `SaLife`: two SAs are the least for a choice between them, two indices for a dead one
  beside a live one, two requests for an SA shared.
- `ReplayWindow`: six bits in two bytes have shifts within a byte, by a byte, across both and beyond;
  twelve numbers reach twice the window; seven packets reach the end of the count.
- `PrefixList`: two entries of one prefix are the least for a handover. A prefix of its own for each
  entry has fewer interactions (`Same` is then empty) and is not run.

Fairness. `Fairness` and `Timers`, and `Timeo` in `Mld6`: a pending callout runs in the end
(`softclock`), weak fairness per address, neighbor or host. `SlowTimo`: `frag6_slowtimo` is called by `pfslowtimo`
every half second. `Tick`: `key_timehandler` re-arms itself every second. Nothing is assumed of packets on
the network, of the router that queries, or of the daemon. Two runs assume a workload, not the
code: `Traffic` in `nc_select` (packets for off-link destinations keep being sent, for without them NUD is not
started) and `Outbound` in `sa` (every policy keeps seeing packets, for only a packet makes a request let go of a
dead SA, or the kernel ask for a new one).

The violation runs are described below.

## Proofs

Every invariant and every action property that a run checks, and the refinement of `AddressLife`, is a theorem
for all values of the constants. A theorem with a hypothesis on a constant has it in its
statement (`ASSUME ... PROVE Spec => ...`); the others have none.

| Module | Theorem | States | Hypothesis |
|---|---|---|---|
| `DadProofs` | `DadTypeCorrect`, `DadRefsBalanced`, `DadNoDanglingTimer` | `TypeOK`, `RefsBalanced`, `NoDanglingTimer` | |
| | `DadInProgressHolds` | `DadInProgress` | `Reconfigurable = {}` |
| | `DadImplementsLife` | `LifeSpec` | `Reconfigurable = {}` |
| | `DadUniqueHolder` | `UniqueHolder` of `DadLink` | `Checked` |
| `NeighborCacheProofs` | `CacheTypes`, `CacheNeverStuck`, `CacheHeldPackets` | `TypeOK`, `NeverStuck`, `HeldPackets` | |
| | `CacheResolved` | `Resolved` | `~Late` |
| | `CacheRouterListOK`, `CacheSelectsBest` | `RouterListOK`, `SelectsBest` | |
| | `CacheNoFlap`, `CacheActiveRouterKept`, `CacheDeadRouterReplaced` | `NoFlap`, `ActiveRouterKept`, `DeadRouterReplaced` | `~Admin` |
| `PrefixListProofs` | `PrefixTypes`, `PrefixRouteExact`, `PrefixPointersLive` | `TypeOK`, `RouteExact`, `PointersLive` | |
| | `PrefixAttachedOnlink`, `PrefixAddressUsable`, `PrefixDetachedForReason` | `AttachedOnlink`, `SomeAddressUsable`, `DetachedForReason` | |
| `Frag6Proofs` | `Frag6Disjoint`, `Frag6Whole`, `Frag6EcnKept`, `Frag6Counted`, `Frag6OldestFirst` | `FragsDisjoint`, `PassedWhole`, `EcnKept`, `FragsCounted`, `OldestFirst` | |
| `SaLifeProofs` | `SaTypes`, `SaRefsBalanced`, `SaAliveOnLiveHead`, `SaStateForward` | `TypeOK`, `RefsBalanced`, `AliveOnLiveHead`, `StateForward` | `~LateUpdate` |
| | `SaHoldersValid` | `HoldersValid`, which `sa_update` violates | `~LateUpdate` |
| `ReplayWindowProofs` | `ReplayWindowExact`, `ReplayAcceptedOnce` | `WindowExact`, `AcceptedOnce` | |
| `Mld6Proofs` | `LastReporterDone` | `DoneByLastReporter` | |
| | `MldTypes`, `DueTimed` | the invariant; `DueIsTimed`, the safety half of `Reported` | |

Why the hypotheses. `Reconfigurable = {}` (userland does not set an existing address again) is what `dad_stall`
shows to be needed, `~LateUpdate` what `sa_update` shows, and `~Late` is explained below. `~Admin` excludes the user's own edits of
the tables. `Checked` says that the address is one DAD checks and is no link-local one (whose duplicate disables the interface),
and that the link loses fewer packets than `ip6_dad_count`; with as many, any DAD fails. The runs `dad_core`, `nc_entry`,
`nc_select`, `sa` and `link_pair` are instances under the same hypotheses.

Assumptions on constants are one per module (`DadAssumption`, `LinkAssumption`, `NeighborCacheAssumption`, `PrefixAssumption`,
`Frag6Assumption`, `SaLifeAssumption`, `ReplayAssumption`, `Mld6Assumption`): limits are numbers, at least
1 where the code's own are, and the requests of `SaLife` are finitely many. `QueueAssumption` of `Frag6` says that the value standing for
"no queue" is no queue.

**`DadProofs`.** `IInv == TypeOK /\ RefsBalanced /\ Linked`. `Linked` (a callout has an entry, an entry has a linked
address) is needed because `PurgeAddr` releases one reference for the list and one for the entry: that the
count stays natural, and that an address assigned anew has no old entry, follow only from
it. The lemma `DadStartKeeps` carries the argument for every caller of
`nd6_dad_start`. For `DadInProgress` and the refinement `LInv` adds `Deciding`: an entry is for a tentative
address that needs DAD and has its callout or is known as a duplicate. Each step of `Dad` is then shown to be, for each
address on its own, one of the steps of `AddressLife` or a stutter (`LifeStep`).

For the link, `LinkInv` adds `Steady` (with no second configuration `TimerSanity` is never taken) and `Contest`: of two
nodes that both use the address or may still come to, one is still checking it, and the other has not heard of that only because the link
lost all its probes or their answers (`Unheard`: `lost >= dp[x].ocount`), the last one perhaps still on
its way and ahead of the callout (`InFlight`). When the callout concludes nothing is on its way any more and `ocount` is
`DadCount`, so that many packets were lost; that is the contradiction. Every delivery, loss, probe and
restart has a lemma that keeps `Contest`.

**`NeighborCacheProofs`.** Each handler gives one entry the value of one operator, so `IInv`
is a predicate `EntryOK` of each entry: its type, `TimerOK` (which states need the
callout) and `HoldOK` (packets are held by an INCOMPLETE entry that has solicited and
has tries left; an entry never used has not solicited). The last clause is what `nd6_output` relies on when it
arms the callout only if `ln_asked` is 0, and is why `NeverStuck` and `HeldPackets` are
proved together. There is one lemma per operator (`NdOutputOK`,
`CacheLladdrOK`, `NaResolveOK`, ...) and `OneEntryOK` for the step. `AddressKnown` (a state that sends has an
address) is inductive on top of it.

The router list has the invariant `RInv` (`Ranked`, `OneRoute`, `InUse`). That the installed router is the best is not
invariant, since a router may become reachable with no selection, so the action properties compare each step with the list before it: for every operator of
`DefaultRouters` a lemma says that the installed router afterwards is the best, or was installed before, and that
one still reachable goes only for one preferred more (`Switched`); `RouterStep` collects what a step may do to routes and entries.
The round-robin among unreachable routers and the deletion of several routers by a fold are covered for lists of any length.

**`PrefixListProofs`.** The functions of `nd6_rtr.c` call each other while some of the properties are broken, so the
invariant has two layers. `Base` holds at every call: nothing unlisted keeps state, exact counts, no pointer to a router
that is gone, one owner for each route (`OneOwner`). `Full(s, D)` adds what the on-link check restores: routes of
all attached prefixes, an attached address if any is detached, and that every detached prefix outside `D` has a reason in `s`. `CheckOK` says
that the check establishes `Full` from `Base` alone, whatever state it is called in and for any set `D`; the lemmas before it show it for the flags, the routes
(two loops over the list that hand routes over between interfaces) and the addresses. With `D` the prefixes detached before the handler,
`Full` of the next state is both the invariant and the action property `DetachedForReason`.

**`Frag6Proofs`.** `Sound` of a queue: disjoint fragments, congestion mark, and room for the unfragmentable
part once the first fragment is stored. The list is ordered and holds exactly the queues, older ones behind (`Ages`: `ttl` does not grow
along the list), which is why freeing from the tail frees the oldest. `nfrags` is the sum over the queues, by the lemmas on sums of
`FoldProofs`. That a list which the walk of `frag6_input` finds without gaps (`NoGaps`) is the whole packet
(`NoGapsWhole`) goes from each fragment to the one with the least offset behind it.

**`SaLifeProofs`.** `Good` of an SA says what its count is and that a larval SA is held by nobody; the second is what makes
the release by `key_update` and by the larval timeout its last. `OneLive` (one live index) and `AliveFound` give
`AliveOnLiveHead`. `Later` relates an SA to what any operator makes of it and gives `StateForward`.

**`ReplayWindowProofs`.** A bitmap is described by the set of distances from `lastseq` whose bits are set (`Shows`). A round of
`vshiftl` adds its width to each element, hence so do all rounds (`VShiftLShows`), a bit set adds one element, and what is shifted out is beyond
the window. The invariant is that the set is that of the packets seen (`Seen`), `lastseq` their largest number and, until
the count ends, `count` their number.

**`Mld6Proofs`.** The code decides on a Done by `in6m_state`, the property speaks of the history `last`. `FlagMine`
connects them (IREPORTEDLAST only if the last report was its own), and is inductive with `TypeOK`. For the
action property, every step but `Leave` either puts no Done on the wire or leaves no membership without claims.
`DueIsTimed` is inductive because each handler of a FreeBSD host that stops the timer has reported or heard a report.

**`FoldProofs`.** The prover cannot use induction theorems that take an operator. Folds, sums and recursive functions
(`FoldLeft`, `SumFunctionOnSet`, `Without`) are reasoned about by the least element of a set of naturals instead (`NatLeast`): a
recursive definition is first shown to have a solution, then two solutions to agree. `Reaches` is the induction principle that the folds over
lists are proved with.

Model-checked only: liveness (`DadSettles`, `HeldSettles`, `FailsOver`, `QueueEnds`, `SaEnds`,
`AskedAgain`, `Reported`), which is beyond the prover. The two properties that violation runs refute are
proved under the hypothesis that excludes the violation (`DadInProgressHolds`, `SaHoldersValid`).

## Where the code and its comments differ

Two runs show a property, taken from a comment, violated by the code:

| Run | Property | What TLC finds |
|---|---|---|
| `dad_stall` | `DadInProgress` | `nd6_dad_start` takes an entry on `dadq` for "DAD already in progress" (`nd6_nbr.c:1322`). `SIOCAIFADDR_IN6` on an address under DAD clears TENTATIVE (`in6.c:1185`), the timer's sanity check leaves the entry without a callout, and once the address is detached and attached again it is tentative for good |
| `sa_update` | `HoldersValid` | `key_update` is said to "update a secasvar entry whose status is SADB_SASTATE_LARVAL" (`netkey/key.c:5265`), but takes any SA alive. When the new values are refused it calls `key_freesav` (5386-5396): refused twice, an SA that a request holds is freed and `isr->sav` points to it still |

The models follow the code also in the following places, where no run is spent on it:

- "make sure to preserve old read-only ones" (`in6.c:769`), but `in6.c:1199` clears DUPLICATED when
  an existing address is set again: the duplicate becomes usable without DAD.
- "I have a duplicate and you win" (`nd6_nbr.c:1638`), but without a `dadq` entry
  `nd6_dad_duplicated` returns at once (1520) and the address is not marked.
- "The entry will be permanent" (`kame/kame/ndp/ndp.8:240`), but an advertisement with another
  address makes a static entry STALE and subject to garbage collection (`nd6_nbr.c:874`).
- "this should be impossible" (`nd6.c:2685`), but a late solicited advertisement without an address makes a
  new entry REACHABLE without one. With `Late = TRUE` TLC finds `Resolved` violated.
- `frag6.c:309` counts a queue before `malloc`; when that fails the count stays. With a limit lowered
  later, `frag6_slowtimo` goes on freeing until the count fits and calls `frag6_freef` on the head of
  the list (`panicked`).
- `mld_timeo` sends a report without setting the flag of the last reporter (`mld6.c:266`), so a host that heard
  another report, was queried and answered leaves without a Done; the flag errs on that side only.
- Outside FreeBSD `in6_delmulti` stops the report timer although other claims remain (`mld6.c:797`). A record
  that is REPORTPENDING then stays so: queries pass it over (483) and it is never reported. `Reported` speaks of the
  FreeBSD hosts.
- `pfxlist_onlink_check` looks for "a router that does not advertise any prefixes" (`nd6_rtr.c:1493-1496`), but its
  loop ends with an answer only if *no* router advertises any (1497-1511).
- An advertisement with the L bit off or lifetime zero does not take a prefix off-link. A prefix invalidated while addresses refer
  to it stays listed, and the check or a handover puts its route back (1031, 1859-1888).
- A source link-layer address option of the wrong length ends `nd6_ra_input` before the check at its
  end (456-461), so a prefix may be on-link and detached for a while ("detached prefixes should not be on-link", 1867).

## Not modelled and limits

PROJECT.json lists what is left out with the reason; within the modules:

- Hosts only: no forwarding, no router solicitations heard, no point-to-point
  links, one interface in `NeighborCache`. The MIP6 branches are off except
  for home addresses and `mip6_do_dad_lladdr` in `Dad`. Proxy entries and those
  of our own addresses are not modelled, nor are the pseudo addresses a home
  agent checks.
- Every autoconfigured address of `Dad` has a prefix (`ia6_ndpr` is set) when the on-link check runs.
- No default route but the one of the list; adding it to the routing table
  succeeds (`defrouter_addreq`).
- `NeighborCache`, `PrefixList` and `Dad` are not composed: reachability is an input of `PrefixList`,
  and attachment one of `Dad`.
- `PrefixList`: one prefix option per advertisement; the timer handles one element per action; lifetimes are
  left or not; no two-hour rule, temporary addresses, MIP6 or detaching interfaces; an interface always has the
  address its routes need, and adding or deleting a route succeeds. Addresses made from a prefix pass DAD.
- `Frag6`: the checks of lengths before the queue is looked up, jumbo payloads and the rebuilt header are left out.
- `SaLife`: one pair of addresses; no lifetimes in bytes; of SAs made in the same second either counts as the older.
  `PreferOld = FALSE` (the newest SA is preferred) is in the model and not in a run.
- `ReplayWindow`: 64-bit counters behind 32-bit numbers are as wide as the parameters; the sender's counter
  is not modelled.
- `Mld6`: one group that is reported; allocations succeed; a query's delay is positive or zero (a delay
  shorter than a clock tick, which `mld6.c:503` would take a remainder by, is left out).
- Durations are abstracted, except for the order RetransTimer gives in `DadLink` and the ticks of `Frag6` and `SaLife`. So are the
  halves of a timer longer than `INT_MAX` ticks.
- `ndp -s ... temp` is the same as without `temp`: the lifetime never reaches `ln_expire`
  (`nd6_rtrequest` clears the structure).
- An entry in state NOSTATE whose callout has run stays until it is used or, on FreeBSD and
  NetBSD, `nd6_rtdrain` takes it; `NeverStuck` does not cover it because the code gives it no callout on purpose.

## Plan

In order of importance:

1. Proofs: every safety property a run checks is proved. Next are lemmas for the liveness properties that
   are safety in themselves (what each waits for has its callout, as `DueTimed` says of `Reported`).
2. Composition of `PrefixList` with `NeighborCache` (reachability) and `Dad` (attachment).
3. `ProxyDad` with the home agent of `shisad`.
4. `Mroute`: the upcall cache of `ip6_mroute.c`; `NatptTslot`; `Rtsold`.
