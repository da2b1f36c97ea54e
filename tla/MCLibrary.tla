------------------------------ MODULE MCLibrary ------------------------------
(* Small instances of Assets for TLC. *)
EXTENDS Assets, TLC

CONSTANTS m, u, v

Folder(owner, org, vis, parent) == [owner |-> owner, org |-> org, vis |-> vis, parent |-> parent]
File(owner, org, vis, folder, name, content) ==
    [owner |-> owner, org |-> org, vis |-> vis, pending |-> FALSE, folder |-> folder, name |-> name,
     content |-> content]
Template(owner, org, vis, kind, refs, default) ==
    [owner |-> owner, org |-> org, vis |-> vis, pending |-> FALSE, kind |-> kind, refs |-> refs,
     media |-> refs, default |-> default]
Campaign(owner, org, refs, media, template) ==
    [owner |-> owner, org |-> org, pending |-> FALSE, refs |-> refs, media |-> media,
     template |-> template, visual |-> FALSE, status |-> "draft"]

\* Member u shares a folder with the organization and has a file in it, v has a private
\* file; v publishes a template with it, and u has a campaign that uses both.
Quiet == [folder |-> 0, share |-> 0, prune |-> 0, move |-> 0, upload |-> 0, delete |-> 0, file |-> 0,
          link |-> 0, template |-> 0, edit |-> 0, default |-> 0, drop |-> 0, clone |-> 0,
          campaign |-> 0, start |-> 0, remove |-> 0, transfer |-> 0, hand |-> 0,
          born |-> 9,
          folders |-> 1 :> Folder(u, TRUE, "organization", Root),
          files |-> 1 :> File(u, TRUE, "private", 1, 1, 1) @@ 2 :> File(v, TRUE, "private", Root, 2, 2),
          templates |-> 3 :> Template(v, TRUE, "organization", "campaign", {2}, FALSE),
          campaigns |-> 5 :> Campaign(u, TRUE, {1}, {1}, 3)]

\* Two branches of two members, and two of one member's own.
Branches(org, w) ==
    1 :> Folder(u, org, "organization", Root) @@ 2 :> Folder(u, org, "organization", 1) @@
    3 :> Folder(w, org, "organization", Root) @@ 4 :> Folder(w, org, "organization", 3)

\* Templates of both members, one of them global and the default of its author.
Three ==
    3 :> Template(v, TRUE, "organization", "campaign", {2}, FALSE) @@
    4 :> Template(v, TRUE, "global", "campaign", {}, TRUE) @@
    6 :> Template(u, TRUE, "private", "campaign", {}, FALSE)

Scenarios ==
    { [Quiet EXCEPT !.move = 3, !.folders = Branches(TRUE, v), !.prune = 1],
      [Quiet EXCEPT !.move = 2, !.folders = Branches(FALSE, u), !.files = <<>>, !.templates = <<>>,
                    !.campaigns = <<>>],
      [Quiet EXCEPT !.folder = 1, !.share = 1, !.prune = 1, !.file = 1, !.move = 1],
      [Quiet EXCEPT !.upload = 2, !.delete = 1, !.remove = 1],
      [Quiet EXCEPT !.upload = 1, !.delete = 2, !.clone = 1],
      [Quiet EXCEPT !.clone = 2, !.remove = 1, !.transfer = 1, !.delete = 1],
      [Quiet EXCEPT !.start = 1, !.link = 2, !.clone = 1, !.remove = 1, !.transfer = 1, !.delete = 1],
      [Quiet EXCEPT !.template = 1, !.default = 1, !.campaign = 1],
      [Quiet EXCEPT !.template = 1, !.edit = 1, !.start = 1, !.share = 1],
      [Quiet EXCEPT !.default = 2, !.drop = 1, !.edit = 1, !.templates = Three],
      [Quiet EXCEPT !.default = 2, !.drop = 1, !.remove = 1, !.transfer = 1, !.hand = 1,
                    !.templates = Three],
      [Quiet EXCEPT !.hand = 2, !.clone = 1, !.delete = 1, !.remove = 1],
      [Quiet EXCEPT !.clone = 2, !.remove = 1, !.delete = 1, !.transfer = 1,
                    !.templates = 3 :> Template(v, TRUE, "global", "visual", {2}, FALSE),
                    !.campaigns = 5 :> Campaign(u, TRUE, {1}, {1}, None)] }
=============================================================================
