------------------------------ MODULE PageKinds ------------------------------
(***************************************************************************)
(* What the pages over lists and rows are made of: the operations of the   *)
(* services on a row, and what each page shows, offers and does after an   *)
(* answer.  Pages.tla is the protocol they share.                          *)
(*                                                                         *)
(* A page is described in two parts: the list its service answers, and     *)
(* what the page itself keeps, offers and does.  An operation is a         *)
(* function from the statuses it accepts to the status it writes.  Texts,  *)
(* search strings, counters and what a page shows of other tables are left *)
(* out; a search selects rows by their identity.                           *)
(***************************************************************************)
(* The fields of two records. *)
Joined(f, g) == [x \in DOMAIN f \cup DOMAIN g |-> IF x \in DOMAIN f THEN f[x] ELSE g[x]]

Absent == {"none", "gone"}
Keeps(S) == [s \in S |-> s]
To(S, status) == [s \in S |-> status]
NoOps == To({}, "none")

-----------------------------------------------------------------------------
(* What the services do to a row: the statuses an operation accepts, and the *)
(* status it writes, decided on the status it read.                          *)

OpenMessage == {"NEW", "READ"}
AnyMessage == OpenMessage \cup {"ARCHIVED"}

(* Variant: a reply opens an archived message again. *)
ReplyReopens == To(AnyMessage, "READ")

Reply == [s \in AnyMessage |-> IF s = "ARCHIVED" THEN s ELSE "READ"]

Contact ==
  [read |-> To(OpenMessage, "READ"), archive |-> To(OpenMessage, "ARCHIVED"),
   reply |-> Reply, delete |-> To(AnyMessage, "gone")]

AnyUser == {"verified", "unverified", "suspended"}
UserStatus ==
  [verify |-> To(AnyUser, "verified"), unverify |-> To(AnyUser, "unverified"),
   suspend |-> To(AnyUser, "suspended")]
UserMfa == [mfa |-> Keeps(AnyUser)]
Users == Joined(UserStatus, UserMfa)

AnyOrganization == {"active", "suspended"}
OrganizationStatus ==
  [suspend |-> To(AnyOrganization, "suspended"), reactivate |-> To(AnyOrganization, "active")]
OrganizationDeletion == [delete |-> To(AnyOrganization, "gone")]
Organizations == Joined(OrganizationStatus, OrganizationDeletion)

(* retryPayment does not look at the status it finds. *)
Payments ==
  [refund |-> To({"CAPTURED"}, "REFUNDED"),
   retry |-> To({"CREATED", "FAILED", "CAPTURED", "REFUNDED"}, "CAPTURED")]

(* A save of the editor writes the published flag it shows. *)
Docs ==
  LET any == {"draft", "published"}
  IN [publish |-> To(any, "published"), unpublish |-> To(any, "draft"),
      save_published |-> To(any, "published"), save_draft |-> To(any, "draft"),
      delete |-> To(any, "gone")]

Flags == [enable |-> To({"on", "off"}, "on"), disable |-> To({"on", "off"}, "off")]

AnyMember == {"MEMBER", "VIEWER"}
Removal == [remove |-> To(AnyMember, "gone")]
RoleChange == [member |-> To(AnyMember, "MEMBER"), viewer |-> To(AnyMember, "VIEWER")]
Members == Joined(Removal, RoleChange)

Response == [respond |-> To({"PENDING"}, "ACCEPTED")]
Invitations ==
  Joined(Response, [revoke |-> To({"PENDING", "EXPIRED"}, "EXPIRED"),
                    resend |-> To({"PENDING"}, "PENDING")])

Keys == [rotate |-> To({"live"}, "live"), revoke |-> To({"live"}, "revoked")]

Pausing == [pause |-> To({"active", "paused"}, "paused")]
Resuming == [resume |-> To({"active", "paused"}, "active")]
Destinations == Joined(Pausing, Resuming)

(* Nothing writes FAILED: the worker gives up with DEAD_LETTER, which neither  *)
(* the replay nor the list of failed deliveries asks for.                      *)
Replay == [replay |-> To({"FAILED"}, "PENDING")]
Deliveries ==
  Joined(Replay, [deliver |-> To({"PENDING"}, "SUCCESS"), exhaust |-> To({"PENDING"}, "DEAD_LETTER"),
                  park |-> To({"PENDING"}, "PAUSED")])

Addresses == [save |-> To({"unset", "set"}, "set")]

-----------------------------------------------------------------------------
(* What the services list: `filters' is what a request selects by, `hides'   *)
(* the statuses the statement leaves out, `paged' that it takes a page and   *)
(* counts the rest, `touched' that the rows are sorted by their last change, *)
(* `tally' the statuses another statement of the same request counts.        *)

Listing ==
  [filters |-> {"all"}, hides |-> Absent, paged |-> FALSE, touched |-> FALSE, tally |-> {}]

(* parsePaginationQuery, skip, take and count *)
Paged == [Listing EXCEPT !.paged = TRUE]
Searched == [Paged EXCEPT !.filters = {"all", "a"}]
Single == [Listing EXCEPT !.filters = {"a"}]

MessageRows == [Paged EXCEPT !.filters = {"all", "READ"}]
MessageRow == Single
UserRows == Searched
OrganizationRows == Searched
OrganizationRow == Single
PaymentRows == [Listing EXCEPT !.filters = {"all", "CAPTURED"}]
RevenueRows == [Listing EXCEPT !.hides = Absent \cup {"CREATED", "FAILED"}, !.tally = {"CAPTURED"}]
DocRows == Listing
DocRow == Single
FlagRows == Listing
MemberRows == Listing
KeyRows == [Listing EXCEPT !.hides = Absent \cup {"revoked"}]
DestinationRow == Single
DestinationRows == Listing
DeliveryRows == [Paged EXCEPT !.filters = {"all", "PENDING"}, !.touched = TRUE]
FailedRows == [DeliveryRows EXCEPT !.filters = {"FAILED"}]
AddressRows == Listing
EventRows == Searched
EventRow == Single
AdminEventRows == Searched
AdminEventRow == Single
AdminDeliveryRows == DeliveryRows
AdminDeliveryRow == Single
ArticleRow == [Single EXCEPT !.hides = Absent \cup {"draft"}]
ArticleRows == [Listing EXCEPT !.hides = Absent \cup {"draft"}]
OverviewRows == [Listing EXCEPT !.touched = TRUE, !.tally = {"PENDING"}]
AdminOverviewRows == [Listing EXCEPT !.tally = {"suspended"}]
UsageRows == Listing
HealthRows == [Listing EXCEPT !.tally = {"PENDING"}]

-----------------------------------------------------------------------------
(* A page: `offers' gives the statuses for which an action is shown, `drops'  *)
(* says whether an answer for another filter is ignored, `clears' whether a   *)
(* failed load empties the page, `busy' which buttons wait for an answer,     *)
(* `dialogs' the actions every answer under way holds back, `free' those none *)
(* does, `after' what follows a success, `back' that an empty page leads to   *)
(* the first one, `leaves' which successes close the page; `starts' is the    *)
(* statuses a new row may have.                                               *)

Page ==
  [ops |-> NoOps, offers |-> NoOps, starts |-> {"SENT"}, back |-> FALSE, drops |-> TRUE,
   clears |-> FALSE, busy |-> "page", dialogs |-> {}, free |-> {}, after |-> "patch",
   leaves |-> {}]

(* Pagination below the list, one busy row *)
TurnedPage == [Page EXCEPT !.back = TRUE, !.busy = "row"]

InboxOffers == [read |-> {"NEW"}, archive |-> OpenMessage, delete |-> AnyMessage]
InboxPage ==
  [TurnedPage EXCEPT !.ops = Contact, !.offers = InboxOffers, !.starts = {"NEW"},
                     !.dialogs = {"delete"}]

MessageOffers ==
  [read |-> {"NEW"}, archive |-> OpenMessage, reply |-> AnyMessage, delete |-> AnyMessage]
MessagePage ==
  [Page EXCEPT !.ops = Contact, !.offers = MessageOffers, !.starts = {"NEW"},
               !.leaves = {"delete"}]

UserOffers ==
  [verify |-> AnyUser \ {"verified"}, unverify |-> AnyUser \ {"unverified"},
   suspend |-> AnyUser \ {"suspended"}, mfa |-> AnyUser]
UsersPage ==
  [TurnedPage EXCEPT !.ops = Users, !.offers = UserOffers, !.starts = {"unverified"},
                     !.dialogs = {"mfa"}]

ToggleOffers == [suspend |-> {"active"}, reactivate |-> {"suspended"}]
OrganizationsPage ==
  [TurnedPage EXCEPT !.ops = Organizations, !.offers = ToggleOffers, !.starts = {"active"}]

OrganizationOffers == Joined(ToggleOffers, [delete |-> AnyOrganization])
OrganizationPage ==
  [Page EXCEPT !.ops = Organizations, !.offers = OrganizationOffers, !.starts = {"active"},
               !.leaves = {"delete"}]

PaymentOffers == [refund |-> {"CAPTURED"}, retry |-> {"FAILED"}]
PaymentsPage ==
  [Page EXCEPT !.ops = Payments, !.offers = PaymentOffers, !.starts = {"CAPTURED", "FAILED"},
               !.drops = FALSE, !.free = {"retry"}]
RevenuePage == [Page EXCEPT !.ops = Payments, !.starts = {"CAPTURED", "FAILED"}]

DocsOffers ==
  [publish |-> {"draft"}, unpublish |-> {"published"}, delete |-> {"draft", "published"}]
DocsPage ==
  [Page EXCEPT !.ops = Docs, !.offers = DocsOffers, !.starts = {"draft", "published"},
               !.clears = TRUE, !.after = "reload"]

DocOffers ==
  [publish |-> {"draft"}, unpublish |-> {"published"},
   save_published |-> {"published"}, save_draft |-> {"draft"}]
DocPage ==
  [Page EXCEPT !.ops = Docs, !.offers = DocOffers, !.starts = {"draft"},
               !.leaves = {"save_published", "save_draft"}]

FlagOffers == [enable |-> {"off"}, disable |-> {"on"}]
FlagsPage ==
  [Page EXCEPT !.ops = Flags, !.offers = FlagOffers, !.starts = {"on", "off"}, !.busy = "row"]

MemberOffers == [member |-> {"VIEWER"}, viewer |-> {"MEMBER"}, remove |-> AnyMember]
MembersPage ==
  [Page EXCEPT !.ops = Members, !.offers = MemberOffers, !.starts = {"MEMBER"},
               !.drops = FALSE, !.busy = "row", !.after = "await"]

InvitationOffers == [revoke |-> {"PENDING"}, resend |-> {"PENDING"}]
InvitationsPage ==
  [MembersPage EXCEPT !.ops = Invitations, !.offers = InvitationOffers, !.starts = {"PENDING"}]

KeyOffers == [rotate |-> {"live"}, revoke |-> {"live"}]
KeysPage ==
  [Page EXCEPT !.ops = Keys, !.offers = KeyOffers, !.starts = {"live"}, !.drops = FALSE,
               !.after = "fetch"]

DestinationOffers == [pause |-> {"active"}, resume |-> {"paused"}]
DestinationPage ==
  [Page EXCEPT !.ops = Destinations, !.offers = DestinationOffers, !.starts = {"active"}]
DestinationsPage == [Page EXCEPT !.ops = Destinations, !.starts = {"active"}]

DeliveriesPage == [TurnedPage EXCEPT !.ops = Deliveries, !.starts = {"PENDING"}]
ReplayOffers == [replay |-> {"FAILED"}]
FailedPage ==
  [Page EXCEPT !.ops = Deliveries, !.offers = ReplayOffers, !.starts = {"PENDING"},
               !.after = "reload"]

ProfileOffers == [save |-> {"unset", "set"}]
ProfilePage ==
  [Page EXCEPT !.ops = Addresses, !.offers = ProfileOffers, !.starts = {"unset", "set"}]

EventsPage == TurnedPage
AdminEventsPage == TurnedPage
AdminDeliveriesPage == DeliveriesPage
DeliveryPage == [Page EXCEPT !.ops = Deliveries, !.starts = {"PENDING"}]
EventPage == Page
AdminEventPage == Page
ArticlePage == [Page EXCEPT !.ops = Docs, !.starts = {"published"}, !.clears = TRUE]
ArticlesPage == [Page EXCEPT !.ops = Docs, !.starts = {"draft", "published"}, !.clears = TRUE]
OverviewPage == [Page EXCEPT !.ops = Deliveries, !.starts = {"PENDING"}]
AdminOverviewPage == [Page EXCEPT !.ops = Organizations, !.starts = {"active"}]
UsagePage == AdminOverviewPage
HealthPage == OverviewPage

PageOf ==
  [inbox |-> Joined(InboxPage, MessageRows),
   message |-> Joined(MessagePage, MessageRow), users |-> Joined(UsersPage, UserRows),
   organizations |-> Joined(OrganizationsPage, OrganizationRows),
   organization |-> Joined(OrganizationPage, OrganizationRow),
   payments |-> Joined(PaymentsPage, PaymentRows),
   revenue |-> Joined(RevenuePage, RevenueRows), docs |-> Joined(DocsPage, DocRows),
   doc |-> Joined(DocPage, DocRow), flags |-> Joined(FlagsPage, FlagRows),
   members |-> Joined(MembersPage, MemberRows),
   invitations |-> Joined(InvitationsPage, MemberRows),
   keys |-> Joined(KeysPage, KeyRows),
   destination |-> Joined(DestinationPage, DestinationRow),
   destinations |-> Joined(DestinationsPage, DestinationRows),
   deliveries |-> Joined(DeliveriesPage, DeliveryRows),
   failed |-> Joined(FailedPage, FailedRows),
   profile |-> Joined(ProfilePage, AddressRows),
   events |-> Joined(EventsPage, EventRows),
   admin_events |-> Joined(AdminEventsPage, AdminEventRows),
   admin_deliveries |-> Joined(AdminDeliveriesPage, AdminDeliveryRows),
   delivery |-> Joined(DeliveryPage, AdminDeliveryRow),
   event |-> Joined(EventPage, EventRow),
   admin_event |-> Joined(AdminEventPage, AdminEventRow),
   article |-> Joined(ArticlePage, ArticleRow),
   articles |-> Joined(ArticlesPage, ArticleRows),
   overview |-> Joined(OverviewPage, OverviewRows),
   admin_overview |-> Joined(AdminOverviewPage, AdminOverviewRows),
   usage |-> Joined(UsagePage, UsageRows), health |-> Joined(HealthPage, HealthRows)]

=============================================================================
