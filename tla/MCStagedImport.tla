--------------------------- MODULE MCStagedImport ---------------------------
(* An instance of StagedImport for TLC, with u32 and u64 scaled down.        *)
EXTENDS StagedImport

Features == {"sampled", "linear_filter", "storage", "transfer_src", "transfer_dst",
             "color_attachment"}
Formats  == {"luma", "chroma", "rgba", "bgra", "r32"}
Size(w, h) == [width |-> w, height |-> h]

Modifier(m, planes, features, importable) ==
  [modifier |-> m, planes |-> planes, features |-> features, extent |-> Size(6, 6),
   importable |-> importable]

\* A device that can do everything except sample a packed DMA-BUF directly.
Complete ==
  [queue |-> {"graphics", "compute", "transfer"},
   modifiers |-> {Modifier(Linear, 1, Features, TRUE), Modifier("tiled", 2, Features, TRUE)},
   packed |-> [f \in {"rgba", "bgra"} |-> {Modifier("tiled", 1, Features, TRUE)}],
   buffers |-> {"transfer", "nv12_texel", "packed_texel"}, texel |-> TRUE,
   features |-> [f \in Formats |-> Features], extent |-> [f \in Formats |-> Size(8, 8)],
   texels |-> 8]

Preferences == {"PreferPlanar", "RequirePlanar", "RequireRgba"}

\* Devices that lack something, or have a small chroma or luma format.
Devices ==
  {[Complete EXCEPT !.queue = q, !.buffers = b, !.features["luma"] = f, !.features["chroma"] = g,
                    !.extent["chroma"] = e] :
     q \in {Complete.queue, {"transfer"}}, b \in {Complete.buffers, {"nv12_texel"}, {"packed_texel"}},
     f \in {Features, Features \ {"storage"}, Features \ {"transfer_dst"}},
     g \in {Features, Features \ {"storage"}, {}}, e \in {Size(8, 8), Size(2, 1), None}}
  \cup
  {[Complete EXCEPT !.texel = t, !.features["rgba"] = f, !.features["r32"] = g,
                    !.extent["luma"] = e, !.modifiers = m] :
     t \in BOOLEAN, f \in {Features, {}}, g \in {Features, {}}, e \in {Size(8, 8), Size(3, 5), None},
     m \in {{}, {Modifier("tiled", 1, Features, TRUE)}, {Modifier("tiled", 2, Features, FALSE)}}}

Plane(o, p) == [offset |-> o, pitch |-> p]

Nv12(m, l, actual) ==
  [kind |-> "nv12", modifier |-> m, format |-> "nv12", layout |-> l, actual |-> actual]

Packed(m, f, l) ==
  [kind |-> "packed", modifier |-> m, format |-> f, layout |-> l, actual |-> l.size]

Nv12Layouts ==
  {[width |-> w, height |-> h, size |-> n, y |-> Plane(o, p), uv |-> Plane(q, r)] :
     w \in {2, 3, 4}, h \in {2, 4}, n \in {16, 27, 28, 32, 36}, o \in {0, 3, 16},
     p \in {2, 5}, q \in {0, 4, 24}, r \in {2, 3, 4}}

PackedLayouts ==
  {[width |-> w, height |-> h, size |-> n, plane |-> Plane(o, p)] :
     w \in {1, 2}, h \in {1, 2, 3}, n \in {8, 18, 24, 28, 32, 36}, o \in {0, 1, 4, 7},
     p \in {4, 7, 8, 9}}

SmallNv12 == [width |-> 2, height |-> 2, size |-> 16, y |-> Plane(0, 2), uv |-> Plane(4, 2)]
SmallPacked == [width |-> 1, height |-> 1, size |-> 8, plane |-> Plane(0, 4)]

SomeRequests ==
  [plain  |-> {Nv12(m, SmallNv12, 16) : m \in {Linear, "tiled"}}
              \cup {Packed(m, "rgba", SmallPacked) : m \in {Linear, "tiled"}},
   nv12   |-> {Nv12(Linear, l, l.size) : l \in Nv12Layouts} \cup {Nv12(Linear, SmallNv12, 12)},
   packed |-> {Packed(Linear, f, l) : l \in PackedLayouts, f \in {"rgba", "bgra"}}]

\* Every device with plain streams, and a complete device with every layout.
SomeScenarios ==
  {[device |-> d, pref |-> p, stream |-> "plain"] : d \in Devices, p \in Preferences}
  \cup {[device |-> [Complete EXCEPT !.texels = n], pref |-> p, stream |-> "nv12"] :
           n \in {6, 8}, p \in Preferences}
  \cup {[device |-> Complete, pref |-> "PreferPlanar", stream |-> "packed"]}
=============================================================================
