--------------------------- MODULE MCFrameIntake ---------------------------
(* An instance of FrameIntake for TLC, with integer widths scaled down.      *)
EXTENDS FrameIntake

Object(fd, size) == [fd |-> fd, size |-> size]
Plane(i, offset, pitch) == [object_index |-> i, offset |-> offset, pitch |-> pitch]
Layer(fourcc, planes) == [fourcc |-> fourcc, planes |-> planes]

TwoPlanes == Layer(1, <<Plane(0, 0, 2), Plane(1, 3, 2)>>)
Descriptor == [kind |-> "dmabuf", version |-> 1, objects |-> <<Object(3, 8), Object(4, 4)>>,
               layers |-> <<TwoPlanes>>]
Binary == [kind |-> "binary", size |-> 8, planes |-> <<[offset |-> 2, stride |-> 5]>>]

Good == [coded_width |-> 4, coded_height |-> 2,
         visible_rect |-> [x |-> 1, y |-> 0, width |-> 3, height |-> 2],
         storage |-> Descriptor, acquire_sync |-> 5]

Four == [i \in 1..4 |-> Plane(i - 1, 0, 1)]

Descriptors ==
  {Descriptor, [Descriptor EXCEPT !.version = 2], [Descriptor EXCEPT !.objects = <<>>],
   [Descriptor EXCEPT !.layers = <<>>],
   [Descriptor EXCEPT !.objects = <<Object(3, 8), Object(-1, 4)>>],
   [Descriptor EXCEPT !.objects = <<Object(3, 0), Object(4, 4)>>],
   [Descriptor EXCEPT !.objects = <<Object(3, 8), Object(4, 3)>>],
   [Descriptor EXCEPT !.objects = <<Object(3, 8)>>],
   [Descriptor EXCEPT !.objects = <<Object(3, 8), Object(4, 8), Object(5, 8)>>],
   [Descriptor EXCEPT !.layers = <<Layer(0, TwoPlanes.planes)>>],
   [Descriptor EXCEPT !.layers = <<TwoPlanes, Layer(1, <<>>)>>],
   [Descriptor EXCEPT !.layers = <<TwoPlanes, TwoPlanes>>],
   [Descriptor EXCEPT !.layers = <<TwoPlanes, TwoPlanes, Layer(2, <<Plane(0, 0, 1)>>)>>],
   [Descriptor EXCEPT !.objects = [i \in 1..4 |-> Object(i, 2)], !.layers = <<Layer(1, Four)>>],
   [Descriptor EXCEPT !.objects = [i \in 1..5 |-> Object(i, 2)],
                      !.layers = <<Layer(1, Append(Four, Plane(4, 0, 1)))>>]}

Frames ==
  {[Good EXCEPT !.storage = d, !.acquire_sync = s] : d \in Descriptors, s \in {None, 5}}
  \cup {[Good EXCEPT !.storage = [Binary EXCEPT !.size = n], !.acquire_sync = s] :
           n \in {2, 7, 8}, s \in {None, 5}}
  \cup {[Good EXCEPT !.acquire_sync = -1], [Good EXCEPT !.coded_width = 3],
        [Good EXCEPT !.coded_height = 0], [Good EXCEPT !.visible_rect.width = 0],
        [Good EXCEPT !.visible_rect.x = 7, !.visible_rect.width = 3]}

Functions4 == {"create", "destroy", "client_wait", "server_wait"}
Some == {Functions4, {}} \cup {Functions4 \ {f} : f \in Functions4}
Extensions == {"native_fence", "fence_sync", "wait_sync"}

Full == [khr |-> Functions4, core |-> Functions4, duplicate |-> TRUE, extensions |-> Extensions,
         gl_sync |-> TRUE, egl_15 |-> TRUE, core_wait |-> TRUE]

Loaders ==
  {[Full EXCEPT !.khr = k, !.core = c, !.extensions = e] :
     k \in Some, c \in Some, e \in {Extensions, Extensions \ {"fence_sync"}}}
  \cup {[Full EXCEPT !.khr = k, !.duplicate = d, !.extensions = e, !.gl_sync = g, !.egl_15 = v,
                     !.core_wait = w] :
          k \in {Functions4, {}}, d \in BOOLEAN, g \in BOOLEAN, v \in BOOLEAN, w \in BOOLEAN,
          e \in {Extensions \ {x} : x \in Extensions}}

Base == [Full EXCEPT !.khr = {}, !.core = {}]

SomeOffers ==
  {[loader |-> Base, frame |-> f] : f \in Frames}
  \cup {[loader |-> l, frame |-> Good] : l \in Loaders}
=============================================================================
